---- MODULE Spec2Model ----
(***************************************************************************)
(* Verification model of the yule-log screensaver engine: the Visual       *)
(* Feedback State (internal/fire/visual.go), the mode-based input state    *)
(* machine of the screensaver runtime, the Secure Input Buffer and the     *)
(* idle watcher (main package).                                            *)
(***************************************************************************)
EXTENDS Integers, Sequences, FiniteSets, TLC

VARIABLES
    \* ---- screensaver runtime (type screensaver) ----
    mode,                 \* cfg.mode
    pc,                   \* position of run(): "start", "running", "done"
    visualState,          \* *fire.VisualState, a record of its four fields
    heatPower,            \* s.heatPower
    heatSources,          \* s.heatSources
    bufferLen,            \* len(s.buffer), the heat grid's length
    width, height,        \* s.width, s.height
    frame,                \* s.frame
    inputBuffer,          \* bytes of s.inputBuffer (a lock.SecureBuffer)
    framesSinceInput,     \* s.framesSinceInput (lock-mode input timeout)
    wrongPasswordFrames,  \* s.wrongPasswordFrames
    stored,               \* the persisted password the credential store checks against
    lastEvent,            \* the event handleEvent handled last
    lastAction,           \* the action it returned
    lastCheck,            \* outcome of the CheckPassword call it made, if any
    \* ---- SecureBuffer used on its own ----
    tokens,               \* the tokens appended and not yet removed, oldest first
    lastOp,               \* last SecureBuffer operation applied
    lastRet,              \* what Backspace returned
    preLen,               \* byte length before the last operation
    suffix,               \* what IsArrowMarkerSuffix returned for inputBuffer
    shortened,            \* what handlePasswordBackspace returned for inputBuffer
    \* ---- idle watcher (execIdle) ----
    timeout,              \* cfg.Timeout
    waitingForActivity,   \* the latch
    idlePc,               \* "polling" or "stopped"
    ctxDone,              \* the signal context was cancelled
    ticks,                \* ticker ticks consumed
    samples,              \* idle times of the successful polls, in order
    latchAt,              \* the latch's value when each sample was taken
    launchedAt,           \* whether triggerScreensaver ran at each sample
    polled,               \* the idle time the current tick polled (-1: none)
    launchedAfterSignal,  \* a screensaver was started after the context was cancelled
    \* ---- a lock session observed from outside ----
    keyLog,               \* the key events handled so far, in order
    keyCount,             \* how many key events were handled so far
    quiet,                \* frames rendered since the last key event
    sinceWrong,           \* frames rendered since the last failed submission (-1: none)
    \* ---- heat grid ----
    buffer,               \* s.buffer, the heat cells (index i of the code is i + 1)
    oldBuffer,            \* the grid as it was before the last diffusion pass
    \* ---- one run of the lock or run command (execLock, execScreensaver) ----
    command,              \* "lock" or "run"
    cfgMode,              \* screensaverConfig.mode
    passwordExists,       \* lock.PasswordExists()
    tmux,                 \* os.Getenv("TMUX") is non-empty
    socketProtect,        \* lockConfig.SocketProtect
    cmdPc,                \* the point the command has reached
    result,               \* what the command returned, or how it ended
    socketPerm,           \* permissions of the tmux socket
    lockRecord,           \* the lock state record exists
    terminal,             \* the terminal screen is held
    history,              \* what the command has acquired or consulted so far
    \* ---- one call of readPasswordWithArrows (set-password) ----
    rpPc,                 \* "start", "reading", "returned" or "exited"
    rawMode,              \* the terminal is in raw mode
    passwordBytes,        \* the bytes of the password slice
    displayLen,           \* the number of symbols echoed
    readBuf,              \* buf, the 16-byte read buffer
    rpResult,             \* how the call ended
    lastChunk,            \* the bytes the last os.Stdin.Read delivered
    \* ---- the render loop and the event-poll goroutine of one runtime ----
    events,               \* s.events, the queued events (poll sequence numbers)
    pollPc,               \* pollEvents: "notStarted", "polling", "sending", "done"
    pollEv,               \* the event pollEvents holds while sending (0: none)
    polledCount,          \* how many events PollEvent has returned
    loopPc,               \* the point run, then close, has reached
    stepLog,              \* the steps of the current loop iteration, in order
    finied,               \* screen.Fini() was called
    injected,             \* the heat power used by the last generateHeat
    handled,              \* the events handleEvent was called with, in order
    \* ---- one cooldown arc of a VisualState ----
    burstAtPress,         \* CurrentBurst just after the key press (-1: no press yet)
    \* ---- the lock command's acquisitions and releases, in order ----
    relLog,               \* what execLock acquired, started and released so far
    \* ---- one diffusion pass, cell by cell ----
    sweepI,               \* renderFire's loop variable i
    \* ---- yule-log.tmux start, stop and toggle ----
    idleTimeOpt,          \* the tmux option @yule-log-idle-time
    watcherProcs,         \* the PIDs of the running idle watchers
    pidFile,              \* the PID in the PID file, NoPid when there is no file
    invPc,                \* where each invocation of the script stands
    invPid,               \* each invocation's local variable pid
    spawned               \* how many watchers have been started so far

runtimeVars == <<mode, pc, visualState, heatPower, heatSources, bufferLen, width,
                 height, frame, framesSinceInput, wrongPasswordFrames,
                 stored, lastEvent, lastAction, lastCheck>>
bufVars == <<tokens, lastOp, lastRet, preLen, suffix, shortened>>
sigVars == <<polled, launchedAfterSignal>>
idleVars == <<timeout, waitingForActivity, idlePc, ctxDone, ticks, samples,
              latchAt, launchedAt, sigVars>>
sessionVars == <<keyLog, keyCount, quiet, sinceWrong>>
gridVars == <<buffer, oldBuffer>>
cmdVars == <<command, cfgMode, passwordExists, tmux, socketProtect, cmdPc,
             result, socketPerm, lockRecord, terminal, history>>
pwVars == <<rpPc, rawMode, passwordBytes, displayLen, readBuf, rpResult,
            lastChunk>>
loopVars == <<events, pollPc, pollEv, polledCount, loopPc, stepLog, finied,
              injected, handled>>
coolVars == <<burstAtPress>>
orderVars == <<relLog>>
sweepVars == <<sweepI>>
watchVars == <<idleTimeOpt, watcherProcs, pidFile, invPc, invPid, spawned>>
lateVars == <<orderVars, sweepVars, watchVars>>
extraVars == <<pwVars, loopVars, coolVars, lateVars>>
otherVars == <<sessionVars, gridVars, cmdVars, extraVars>>
vars == <<runtimeVars, inputBuffer, bufVars, idleVars, otherVars>>

\* ------------------------------------------------------------------------
\* Bounds of the model
\* ------------------------------------------------------------------------
MaxFramesSinceInput == 160
MaxFrame == 2
MaxBufLen == 3
MaxTokens == 3
MaxTicks == 6
MaxSamples == 5
MaxDataLen == 3

\* ------------------------------------------------------------------------
\* internal/fire/visual.go
\* ------------------------------------------------------------------------
BaseHeatPower == 75
BurstHeat == 12
MaxBurstHeat == 150
DefaultCooldownRate == 2
DefaultCooldownDelay == 5

CooldownPresets ==
    { [Rate |-> 4, Delay |-> 3],
      [Rate |-> 2, Delay |-> 5],
      [Rate |-> 1, Delay |-> 8] }

NewVisualStateWithPreset(p) ==
    [CurrentBurst |-> 0, FramesSinceInput |-> 0,
     CooldownRate |-> p.Rate, CooldownDelay |-> p.Delay]

OnKeyPressNoClamp(vs) ==
    [vs EXCEPT !.CurrentBurst = vs.CurrentBurst + BurstHeat,
               !.FramesSinceInput = 0]

OnKeyPress(vs) ==
    LET b == vs.CurrentBurst + BurstHeat
    IN [vs EXCEPT !.CurrentBurst = IF b > MaxBurstHeat THEN MaxBurstHeat ELSE b,
                  !.FramesSinceInput = 0]

\* A cooldown that starts one frame early (>= instead of >).
OnFrameEarlyDecay(vs) ==
    LET n == vs.FramesSinceInput + 1
        b == vs.CurrentBurst - vs.CooldownRate
    IN [vs EXCEPT !.FramesSinceInput = n,
                  !.CurrentBurst = IF n >= vs.CooldownDelay
                                   THEN (IF b < 0 THEN 0 ELSE b)
                                   ELSE vs.CurrentBurst]

OnFrame(vs) ==
    LET n == vs.FramesSinceInput + 1
        b == vs.CurrentBurst - vs.CooldownRate
    IN IF n > vs.CooldownDelay
       THEN [vs EXCEPT !.FramesSinceInput = n,
                       !.CurrentBurst = IF b < 0 THEN 0 ELSE b]
       ELSE [vs EXCEPT !.FramesSinceInput = n]

\* A heat power that ignores the burst.
EffectiveHeatPowerBaseOnly(vs) == BaseHeatPower

EffectiveHeatPower(vs) == BaseHeatPower + vs.CurrentBurst

\* ------------------------------------------------------------------------
\* internal/lock: arrow markers and SecureBuffer (byte sequences)
\* ------------------------------------------------------------------------
ArrowUpMarker == <<0, 1>>
ArrowDownMarker == <<0, 2>>
ArrowLeftMarker == <<0, 3>>
ArrowRightMarker == <<0, 4>>
ArrowMarkers == {ArrowUpMarker, ArrowDownMarker, ArrowLeftMarker, ArrowRightMarker}

IsArrowMarkerSuffix(data) ==
    IF Len(data) >= 2 /\ SubSeq(data, Len(data) - 1, Len(data)) \in ArrowMarkers
    THEN [match |-> TRUE, remove |-> 2]
    ELSE [match |-> FALSE, remove |-> 1]

AppendRune(data, r) == Append(data, r)

AppendString(data, str) == data \o str

BackspaceAlwaysTrue(data) ==
    IF Len(data) = 0
    THEN [data |-> data, ok |-> TRUE]
    ELSE [data |-> SubSeq(data, 1, Len(data) - IsArrowMarkerSuffix(data).remove),
          ok |-> TRUE]

Backspace(data) ==
    IF Len(data) = 0
    THEN [data |-> data, ok |-> FALSE]
    ELSE [data |-> SubSeq(data, 1, Len(data) - IsArrowMarkerSuffix(data).remove),
          ok |-> TRUE]

RECURSIVE VisualLen(_)
VisualLen(data) ==
    IF Len(data) = 0 THEN 0
    ELSE 1 + VisualLen(SubSeq(data, 1, Len(data) - IsArrowMarkerSuffix(data).remove))

Clear(data) == <<>>

handlePasswordBackspaceNoRight(password) ==
    IF Len(password) = 0 THEN password
    ELSE IF Len(password) >= 2
            /\ SubSeq(password, Len(password) - 1, Len(password))
                  \in {ArrowUpMarker, ArrowDownMarker, ArrowLeftMarker}
         THEN SubSeq(password, 1, Len(password) - 2)
         ELSE SubSeq(password, 1, Len(password) - 1)

\* handlePasswordBackspace (set-password raw input): the same rule on a slice
handlePasswordBackspace(password) ==
    IF Len(password) = 0 THEN password
    ELSE IF Len(password) >= 2
            /\ ( \/ SubSeq(password, Len(password) - 1, Len(password)) = ArrowUpMarker
                 \/ SubSeq(password, Len(password) - 1, Len(password)) = ArrowDownMarker
                 \/ SubSeq(password, Len(password) - 1, Len(password)) = ArrowLeftMarker
                 \/ SubSeq(password, Len(password) - 1, Len(password)) = ArrowRightMarker )
         THEN SubSeq(password, 1, Len(password) - 2)
         ELSE SubSeq(password, 1, Len(password) - 1)

\* lock.CheckPassword: valid iff the candidate is the stored password; ioErr
\* is the failure to read or decode the password record.
CheckPassword(password, ioErr) ==
    [valid |-> (~ioErr) /\ password = stored, err |-> ioErr]

\* ------------------------------------------------------------------------
\* Screensaver runtime: constants, keys and events
\* ------------------------------------------------------------------------
heatSourceDivisor == 6
wrongPasswordDuration == 67
inputTimeoutFrames == 200

ModeNormal == "ModeNormal"
ModePlayground == "ModePlayground"
ModeLock == "ModeLock"
Modes == {ModeNormal, ModePlayground, ModeLock}

actionNone == "actionNone"
actionExit == "actionExit"
actionResize == "actionResize"

KeyEnter == "KeyEnter"
KeyEscape == "KeyEscape"
KeyUp == "KeyUp"
KeyDown == "KeyDown"
KeyLeft == "KeyLeft"
KeyRight == "KeyRight"
KeyBackspace == "KeyBackspace"
KeyBackspace2 == "KeyBackspace2"
KeyRune == "KeyRune"
KeyTab == "KeyTab"
KeyCtrlC == "KeyCtrlC"

ArrowKeys == {KeyUp, KeyDown, KeyLeft, KeyRight}

ArrowKeyMarker(key) ==
    CASE key = KeyUp -> ArrowUpMarker
      [] key = KeyDown -> ArrowDownMarker
      [] key = KeyLeft -> ArrowLeftMarker
      [] key = KeyRight -> ArrowRightMarker
      [] OTHER -> <<>>

NoEvent == [type |-> "none", key |-> "none", rune |-> 0, w |-> 0, h |-> 0]
EventKey(key, r) == [type |-> "key", key |-> key, rune |-> r, w |-> 0, h |-> 0]
EventResize(w, h) == [type |-> "resize", key |-> "none", rune |-> 0, w |-> w, h |-> h]

\* ------------------------------------------------------------------------
\* Screensaver runtime: event handling
\* ------------------------------------------------------------------------
\* screensaver.resize: the new size is what screen.Size() reports; a size with
\* a non-positive dimension is stored but the grid is left as it was.
resize(w, h) ==
    /\ width' = w
    /\ height' = h
    /\ IF w <= 0 \/ h <= 0
       THEN UNCHANGED <<bufferLen, heatSources>>
       ELSE /\ bufferLen' = w * h + w + 1
            /\ heatSources' = w \div heatSourceDivisor

handleKeyNormalExitsAlways(key) == actionExit

handleKeyNormal(key) ==
    CASE key = KeyEscape -> actionExit
      [] key \in {KeyUp, KeyDown} -> actionNone
      [] OTHER -> actionExit

handleKeyPlaygroundLikeNormal(key) ==
    IF key \in {KeyUp, KeyDown} THEN actionNone ELSE actionExit

handleKeyPlayground(key) ==
    IF key = KeyEscape THEN actionExit ELSE actionNone

\* screensaver.tryUnlock: the candidate is a copy of the buffer's bytes; the
\* buffer is cleared unless the check returned valid without error.
\* A tryUnlock that lets a verification error through as a success.
tryUnlockErrorUnlocks(ioErr) ==
    LET c == CheckPassword(inputBuffer, ioErr)
    IN IF (~c.err) /\ ~c.valid
       THEN [ok |-> FALSE, buf |-> Clear(inputBuffer), check |-> "invalid"]
       ELSE [ok |-> TRUE, buf |-> inputBuffer,
             check |-> IF c.err THEN "error" ELSE "valid"]

tryUnlock(ioErr) ==
    LET c == CheckPassword(inputBuffer, ioErr)
    IN IF c.err \/ ~c.valid
       THEN [ok |-> FALSE, buf |-> Clear(inputBuffer),
             check |-> IF c.err THEN "error" ELSE "invalid"]
       ELSE [ok |-> TRUE, buf |-> inputBuffer, check |-> "valid"]

handleKeyLockEscapeExits(key, r, ioErr) ==
    [action |-> IF key = KeyEscape \/ (key = KeyEnter /\ tryUnlock(ioErr).ok)
                THEN actionExit ELSE actionNone,
     buf |-> inputBuffer, wrong |-> wrongPasswordFrames,
     check |-> IF key = KeyEnter THEN tryUnlock(ioErr).check ELSE "none"]

\* A lock screen on which Backspace edits nothing.
handleKeyLockNoBackspace(key, r, ioErr) ==
    CASE key = KeyEnter ->
           LET u == tryUnlock(ioErr)
           IN IF u.ok
              THEN [action |-> actionExit, buf |-> u.buf,
                    wrong |-> wrongPasswordFrames, check |-> u.check]
              ELSE [action |-> actionNone, buf |-> Clear(u.buf),
                    wrong |-> wrongPasswordDuration, check |-> u.check]
      [] key = KeyRune ->
           [action |-> actionNone, buf |-> AppendRune(inputBuffer, r),
            wrong |-> wrongPasswordFrames, check |-> "none"]
      [] OTHER ->
           [action |-> actionNone, buf |-> inputBuffer,
            wrong |-> wrongPasswordFrames, check |-> "none"]

\* A failed submission that starts no wrong-password animation.
handleKeyLockNoFlash(key, r, ioErr) ==
    IF key = KeyEnter /\ ~tryUnlock(ioErr).ok
    THEN [action |-> actionNone, buf |-> Clear(inputBuffer),
          wrong |-> wrongPasswordFrames, check |-> tryUnlock(ioErr).check]
    ELSE handleKeyLockEscapeExits(key, r, ioErr)

\* screensaver.handleKeyLock: the action returned and the new values of
\* inputBuffer and wrongPasswordFrames (framesSinceInput is reset by the caller
\* of this operator, see handleKey).
handleKeyLock(key, r, ioErr) ==
    CASE key = KeyEnter ->
           LET u == tryUnlock(ioErr)
           IN IF u.ok
              THEN [action |-> actionExit, buf |-> u.buf,
                    wrong |-> wrongPasswordFrames, check |-> u.check]
              ELSE [action |-> actionNone, buf |-> Clear(u.buf),
                    wrong |-> wrongPasswordDuration, check |-> u.check]
      [] key \in {KeyBackspace, KeyBackspace2} ->
           [action |-> actionNone, buf |-> Backspace(inputBuffer).data,
            wrong |-> wrongPasswordFrames, check |-> "none"]
      [] key \in ArrowKeys ->
           [action |-> actionNone,
            buf |-> AppendString(inputBuffer, ArrowKeyMarker(key)),
            wrong |-> wrongPasswordFrames, check |-> "none"]
      [] key = KeyRune ->
           [action |-> actionNone, buf |-> AppendRune(inputBuffer, r),
            wrong |-> wrongPasswordFrames, check |-> "none"]
      [] OTHER ->
           [action |-> actionNone, buf |-> inputBuffer,
            wrong |-> wrongPasswordFrames, check |-> "none"]

\* screensaver.handleKey as called from handleEvent and processEvents: feed
\* the burst, dispatch on the mode, and leave the loop on actionExit.
handleKey(key, r, ioErr) ==
    /\ visualState' = OnKeyPress(visualState)
    /\ heatPower' = EffectiveHeatPower(visualState')
    /\ lastEvent' = EventKey(key, r)
    /\ IF mode = ModeLock
       THEN LET res == handleKeyLock(key, r, ioErr)
            IN /\ Len(res.buf) <= MaxBufLen
               /\ framesSinceInput' = 0
               /\ inputBuffer' = res.buf
               /\ wrongPasswordFrames' = res.wrong
               /\ lastAction' = res.action
               /\ lastCheck' = res.check
       ELSE /\ lastAction' = IF mode = ModePlayground
                             THEN handleKeyPlayground(key)
                             ELSE handleKeyNormal(key)
            /\ lastCheck' = "none"
            /\ UNCHANGED <<framesSinceInput, inputBuffer, wrongPasswordFrames>>
    /\ pc' = IF lastAction' = actionExit THEN "done" ELSE "running"
    /\ UNCHANGED <<mode, heatSources, bufferLen, width, height, frame, stored>>

\* screensaver.handleEvent, case *tcell.EventResize
handleResize(w, h) ==
    /\ resize(w, h)
    /\ lastEvent' = EventResize(w, h)
    /\ lastAction' = IF w <= 0 \/ h <= 0 THEN actionExit ELSE actionResize
    /\ lastCheck' = "none"
    /\ pc' = IF lastAction' = actionExit THEN "done" ELSE "running"
    /\ UNCHANGED <<mode, visualState, heatPower, frame, inputBuffer,
                   framesSinceInput, wrongPasswordFrames, stored>>

\* An input timeout that fires one frame late (> instead of >=).
updateVisualStateLateTimeout ==
    /\ visualState' = OnFrame(visualState)
    /\ heatPower' = EffectiveHeatPower(visualState')
    /\ wrongPasswordFrames' =
         IF wrongPasswordFrames > 0 THEN wrongPasswordFrames - 1
         ELSE wrongPasswordFrames
    /\ IF mode = ModeLock /\ Len(inputBuffer) > 0
       THEN IF framesSinceInput + 1 > inputTimeoutFrames
            THEN inputBuffer' = Clear(inputBuffer) /\ framesSinceInput' = 0
            ELSE framesSinceInput' = framesSinceInput + 1 /\ UNCHANGED inputBuffer
       ELSE UNCHANGED <<inputBuffer, framesSinceInput>>

\* screensaver.updateVisualState followed by renderFrame, the sleep and frame++
updateVisualState ==
    /\ visualState' = OnFrame(visualState)
    /\ heatPower' = EffectiveHeatPower(visualState')
    /\ wrongPasswordFrames' =
         IF wrongPasswordFrames > 0 THEN wrongPasswordFrames - 1
         ELSE wrongPasswordFrames
    /\ IF mode = ModeLock /\ Len(inputBuffer) > 0
       THEN IF framesSinceInput + 1 >= inputTimeoutFrames
            THEN inputBuffer' = Clear(inputBuffer) /\ framesSinceInput' = 0
            ELSE framesSinceInput' = framesSinceInput + 1 /\ UNCHANGED inputBuffer
       ELSE UNCHANGED <<inputBuffer, framesSinceInput>>

\* ------------------------------------------------------------------------
\* Values held by the variables a specification does not use
\* ------------------------------------------------------------------------
BufferUnused ==
    /\ tokens = <<>>
    /\ lastOp = "none"
    /\ lastRet = FALSE
    /\ preLen = 0
    /\ suffix = [match |-> FALSE, remove |-> 0]
    /\ shortened = <<>>

IdleUnused ==
    /\ timeout = 0
    /\ waitingForActivity = FALSE
    /\ idlePc = "stopped"
    /\ ctxDone = FALSE
    /\ ticks = 0
    /\ samples = <<>>
    /\ latchAt = <<>>
    /\ launchedAt = <<>>
    /\ polled = -1
    /\ launchedAfterSignal = FALSE

SessionUnused ==
    /\ keyLog = <<>>
    /\ keyCount = 0
    /\ quiet = 0
    /\ sinceWrong = -1

GridUnused ==
    /\ buffer = <<>>
    /\ oldBuffer = <<>>

CmdUnused ==
    /\ command = "none"
    /\ cfgMode = ModeNormal
    /\ passwordExists = FALSE
    /\ tmux = FALSE
    /\ socketProtect = FALSE
    /\ cmdPc = "done"
    /\ result = "none"
    /\ socketPerm = "original"
    /\ lockRecord = FALSE
    /\ terminal = FALSE
    /\ history = {}

PwUnused ==
    /\ rpPc = "returned"
    /\ rawMode = FALSE
    /\ passwordBytes = <<>>
    /\ displayLen = 0
    /\ readBuf = <<>>
    /\ rpResult = "none"
    /\ lastChunk = <<>>

LoopUnused ==
    /\ events = <<>>
    /\ pollPc = "notStarted"
    /\ pollEv = 0
    /\ polledCount = 0
    /\ loopPc = "closed"
    /\ stepLog = <<>>
    /\ finied = FALSE
    /\ injected = 0
    /\ handled = <<>>

CoolUnused ==
    /\ burstAtPress = -1

OrderUnused ==
    /\ relLog = <<>>

SweepUnused ==
    /\ sweepI = 0

Invocations == 1..2
NoPid == 0

WatchUnused ==
    /\ idleTimeOpt = ""
    /\ watcherProcs = {}
    /\ pidFile = NoPid
    /\ invPc = [i \in Invocations |-> "idle"]
    /\ invPid = [i \in Invocations |-> NoPid]
    /\ spawned = 0

LateUnused ==
    /\ OrderUnused
    /\ SweepUnused
    /\ WatchUnused

ExtraUnused ==
    /\ PwUnused
    /\ LoopUnused
    /\ CoolUnused
    /\ LateUnused

OtherUnused ==
    /\ SessionUnused
    /\ GridUnused
    /\ CmdUnused
    /\ ExtraUnused

RuntimeUnused ==
    /\ mode = ModeNormal
    /\ pc = "done"
    /\ heatPower = BaseHeatPower
    /\ heatSources = 0
    /\ bufferLen = 0
    /\ width = 0
    /\ height = 0
    /\ frame = 0
    /\ framesSinceInput = 0
    /\ wrongPasswordFrames = 0
    /\ stored = <<>>
    /\ lastEvent = NoEvent
    /\ lastAction = actionNone
    /\ lastCheck = "none"

\* ------------------------------------------------------------------------
\* Specification of the screensaver runtime (execScreensaver: newScreensaver,
\* then run until an exit action)
\* ------------------------------------------------------------------------
Widths == {0, 13}
Heights == {0, 2}
RuntimeKeys == {KeyEnter, KeyEscape, KeyUp, KeyDown, KeyLeft, KeyRight,
                KeyBackspace, KeyBackspace2, KeyRune, KeyTab, KeyCtrlC}
RuntimeRunes == {120}
StoredPasswords == { ArrowUpMarker \o <<120>> }

\* newScreensaver: the state after construction, for any mode, cooldown
\* preset and initial terminal size.
RuntimeInit ==
    /\ mode \in Modes
    /\ \E p \in CooldownPresets : visualState = NewVisualStateWithPreset(p)
    /\ heatPower = EffectiveHeatPower(visualState)
    /\ width \in Widths
    /\ height \in Heights
    /\ bufferLen = IF width <= 0 \/ height <= 0 THEN 0
                   ELSE width * height + width + 1
    /\ heatSources = IF width <= 0 \/ height <= 0 THEN 0
                     ELSE width \div heatSourceDivisor
    /\ frame = 0
    /\ inputBuffer = <<>>
    /\ framesSinceInput = 0
    /\ wrongPasswordFrames = 0
    /\ stored \in StoredPasswords
    /\ pc = "start"
    /\ lastEvent = NoEvent
    /\ lastAction = actionNone
    /\ lastCheck = "none"
    /\ BufferUnused
    /\ IdleUnused
    /\ OtherUnused

\* screensaver.run up to the loop: a terminal of zero size ends it at once.
RunStart ==
    /\ pc = "start"
    /\ pc' = IF width <= 0 \/ height <= 0 THEN "done" ELSE "running"
    /\ UNCHANGED <<mode, visualState, heatPower, heatSources, bufferLen, width,
                   height, frame, framesSinceInput, wrongPasswordFrames, stored,
                   lastEvent, lastAction, lastCheck, inputBuffer>>
    /\ UNCHANGED <<bufVars, idleVars, otherVars>>

\* processEvents takes one key event from the queue and handles it.
KeyEvent ==
    /\ pc = "running"
    /\ \E key \in RuntimeKeys, r \in RuntimeRunes \cup {0}, ioErr \in BOOLEAN :
         /\ (key = KeyRune <=> r # 0)
         /\ (key # KeyEnter => ~ioErr)
         /\ handleKey(key, r, ioErr)
    /\ UNCHANGED <<bufVars, idleVars, otherVars>>

\* processEvents takes one resize event from the queue and handles it.
ResizeEvent ==
    /\ pc = "running"
    /\ \E w \in Widths, h \in Heights : handleResize(w, h)
    /\ UNCHANGED <<bufVars, idleVars, otherVars>>

\* processEvents found the queue empty: one frame of the loop.
Frame ==
    /\ pc = "running"
    /\ frame < MaxFrame
    /\ updateVisualState
    /\ frame' = frame + 1
    /\ UNCHANGED <<mode, pc, heatSources, bufferLen, width, height, stored,
                   lastEvent, lastAction, lastCheck>>
    /\ UNCHANGED <<bufVars, idleVars, otherVars>>

RuntimeNext == RunStart \/ KeyEvent \/ ResizeEvent \/ Frame

SpecRuntime == RuntimeInit /\ [][RuntimeNext]_vars

\* ------------------------------------------------------------------------
\* Specification of a VisualState on its own: any starting state within the
\* documented range of its fields, then OnKeyPress and OnFrame in any order
\* ------------------------------------------------------------------------
VisualInit ==
    /\ \E p \in CooldownPresets, b \in 0..MaxBurstHeat, n \in 0..MaxFramesSinceInput :
         visualState = [CurrentBurst |-> b, FramesSinceInput |-> n,
                        CooldownRate |-> p.Rate, CooldownDelay |-> p.Delay]
    /\ inputBuffer = <<>>
    /\ RuntimeUnused
    /\ BufferUnused
    /\ IdleUnused
    /\ OtherUnused

VisualKeyPress ==
    /\ visualState' = OnKeyPress(visualState)
    /\ UNCHANGED <<mode, pc, heatPower, heatSources, bufferLen, width, height,
                   frame, framesSinceInput, wrongPasswordFrames, stored,
                   lastEvent, lastAction, lastCheck, inputBuffer>>
    /\ UNCHANGED <<bufVars, idleVars, otherVars>>

VisualFrame ==
    /\ visualState.FramesSinceInput < MaxFramesSinceInput
    /\ visualState' = OnFrame(visualState)
    /\ UNCHANGED <<mode, pc, heatPower, heatSources, bufferLen, width, height,
                   frame, framesSinceInput, wrongPasswordFrames, stored,
                   lastEvent, lastAction, lastCheck, inputBuffer>>
    /\ UNCHANGED <<bufVars, idleVars, otherVars>>

VisualNext == VisualKeyPress \/ VisualFrame

SpecVisual == VisualInit /\ [][VisualNext]_vars

\* C1: CurrentBurst stays within [0, MaxBurstHeat] after any sequence of
\* OnKeyPress and OnFrame calls, from any starting state whose fields are
\* within their documented ranges.
BurstInRange ==
    /\ visualState.CurrentBurst >= 0
    /\ visualState.CurrentBurst <= MaxBurstHeat

\* A keypress has just saturated the burst at MaxBurstHeat.
BurstInRangeWitness ==
    /\ visualState.CurrentBurst = MaxBurstHeat
    /\ visualState.FramesSinceInput = 0

\* ------------------------------------------------------------------------
\* Claims about the mode-based input state machine (SpecRuntime)
\* ------------------------------------------------------------------------
\* A step of the loop that handled a key event.
KeyStep ==
    /\ pc = "running"
    /\ frame' = frame
    /\ lastEvent'.type = "key"

BurstFed ==
    visualState'.CurrentBurst =
        IF visualState.CurrentBurst + BurstHeat > MaxBurstHeat
        THEN MaxBurstHeat
        ELSE visualState.CurrentBurst + BurstHeat

\* C2: in Lock mode the loop ends only on a verified password: whenever a
\* locked runtime has stopped after handling an event, that event was Enter
\* and the check of the submitted password returned valid.
LockEndsOnlyOnVerifiedPassword ==
    (mode = ModeLock /\ pc = "done" /\ lastEvent.type # "none")
        => /\ lastEvent.type = "key"
           /\ lastEvent.key = KeyEnter
           /\ lastCheck = "valid"

\* C3: in Lock mode a key event returns actionExit iff the key is Enter and
\* the check of the buffer's contents returned valid without error; the
\* buffer then still holds the stored password, and a failed check is the
\* only other outcome of Enter. Every other key returns actionNone.
LockKeyExitsIffEnterValid ==
    (mode = ModeLock /\ lastEvent.type = "key")
        => /\ lastAction = actionExit
                <=> (lastEvent.key = KeyEnter /\ lastCheck = "valid")
           /\ lastAction \in {actionExit, actionNone}
           /\ lastCheck = "valid" => inputBuffer = stored
           /\ lastCheck # "none" <=> lastEvent.key = KeyEnter
           /\ pc = "done" <=> lastAction = actionExit

\* Enter was pressed on the stored password and the session was unlocked.
LockKeyExitsWitness ==
    /\ mode = ModeLock
    /\ lastEvent.type = "key"
    /\ lastEvent.key = KeyEnter
    /\ lastCheck = "valid"
    /\ lastAction = actionExit
    /\ pc = "done"

PlaygroundKeyExitsIffEscape ==
    /\ [] ((mode = ModePlayground /\ lastEvent.type = "key")
             => /\ lastAction = actionExit <=> lastEvent.key = KeyEscape
                /\ lastAction \in {actionExit, actionNone}
                /\ pc = "done" <=> lastAction = actionExit)
    /\ [][ (mode = ModePlayground /\ KeyStep /\ lastEvent'.key # KeyEscape)
             => (BurstFed /\ visualState'.FramesSinceInput = 0 /\ pc' = "running") ]_vars

\* Enter was pressed in Playground mode after other keys: still running.
PlaygroundKeyWitness ==
    /\ mode = ModePlayground
    /\ lastEvent.type = "key"
    /\ lastEvent.key = KeyEnter
    /\ lastAction = actionNone
    /\ pc = "running"
    /\ visualState.CurrentBurst = 3 * BurstHeat

\* ------------------------------------------------------------------------
\* Specification of a SecureBuffer on its own: AppendRune, AppendString with
\* an arrow marker, and Backspace in any order. tokens records what was
\* appended and is not part of the buffer.
\* ------------------------------------------------------------------------
BufRunes == {0, 1, 97}

RuntimeIdle ==
    /\ RuntimeUnused
    /\ visualState = NewVisualStateWithPreset(
                        [Rate |-> DefaultCooldownRate, Delay |-> DefaultCooldownDelay])

BufferInit ==
    /\ inputBuffer = <<>>
    /\ BufferUnused
    /\ RuntimeIdle
    /\ IdleUnused
    /\ OtherUnused

BufAppendRune ==
    /\ Len(tokens) < MaxTokens
    /\ \E r \in BufRunes :
         /\ inputBuffer' = AppendRune(inputBuffer, r)
         /\ tokens' = Append(tokens, <<r>>)
    /\ lastOp' = "AppendRune"
    /\ preLen' = Len(inputBuffer)
    /\ UNCHANGED <<lastRet, suffix, shortened, runtimeVars, idleVars, otherVars>>

BufAppendString ==
    /\ Len(tokens) < MaxTokens
    /\ \E m \in ArrowMarkers :
         /\ inputBuffer' = AppendString(inputBuffer, m)
         /\ tokens' = Append(tokens, m)
    /\ lastOp' = "AppendString"
    /\ preLen' = Len(inputBuffer)
    /\ UNCHANGED <<lastRet, suffix, shortened, runtimeVars, idleVars, otherVars>>

BufBackspace ==
    /\ inputBuffer' = Backspace(inputBuffer).data
    /\ lastRet' = Backspace(inputBuffer).ok
    /\ tokens' = IF Len(tokens) = 0 THEN tokens
                 ELSE SubSeq(tokens, 1, Len(tokens) - 1)
    /\ lastOp' = "Backspace"
    /\ preLen' = Len(inputBuffer)
    /\ UNCHANGED <<suffix, shortened, runtimeVars, idleVars, otherVars>>

BufferNext == BufAppendRune \/ BufAppendString \/ BufBackspace

SpecBuffer == BufferInit /\ [][BufferNext]_vars

RECURSIVE Flatten(_)
Flatten(toks) ==
    IF Len(toks) = 0 THEN <<>>
    ELSE Flatten(SubSeq(toks, 1, Len(toks) - 1)) \o toks[Len(toks)]

BackspaceReturn ==
    lastOp = "Backspace"
        => /\ lastRet = (preLen > 0)
           /\ preLen = 0 => Len(inputBuffer) = 0
           /\ preLen > 0 => Len(inputBuffer) < preLen

\* Backspace was applied to an empty buffer after tokens had been removed.
BackspaceReturnWitness ==
    /\ lastOp = "Backspace"
    /\ preLen = 0
    /\ lastRet = FALSE
    /\ Len(inputBuffer) = 0

\* ------------------------------------------------------------------------
\* Specification of IsArrowMarkerSuffix as a function of the bytes: any
\* byte sequence up to MaxDataLen, then one application
\* ------------------------------------------------------------------------
SuffixBytes == {0, 1, 2, 3, 4, 5, 97}

RECURSIVE ByteSeqs(_)
ByteSeqs(n) ==
    IF n = 0 THEN { <<>> }
    ELSE ByteSeqs(n - 1) \cup
         { Append(d, b) : d \in { x \in ByteSeqs(n - 1) : Len(x) = n - 1 },
                          b \in SuffixBytes }

SuffixInit ==
    /\ inputBuffer \in ByteSeqs(MaxDataLen)
    /\ BufferUnused
    /\ RuntimeIdle
    /\ IdleUnused
    /\ OtherUnused

SuffixApply ==
    /\ lastOp = "none"
    /\ suffix' = IsArrowMarkerSuffix(inputBuffer)
    /\ shortened' = handlePasswordBackspace(inputBuffer)
    /\ lastOp' = "IsArrowMarkerSuffix"
    /\ UNCHANGED <<inputBuffer, tokens, lastRet, preLen, runtimeVars, idleVars, otherVars>>

SuffixNext == SuffixApply

SpecSuffix == SuffixInit /\ [][SuffixNext]_vars

\* C7: IsArrowMarkerSuffix returns (true, 2) exactly when the data has at
\* least 2 bytes and ends in 0x00 followed by one of 0x01..0x04, and
\* (false, 1) in every other case; handlePasswordBackspace removes that many
\* bytes from a non-empty password.
SuffixExactlyMarkers ==
    lastOp = "IsArrowMarkerSuffix"
        => LET n == Len(inputBuffer)
               isMarker == /\ n >= 2
                           /\ inputBuffer[n - 1] = 0
                           /\ inputBuffer[n] \in 1..4
           IN /\ isMarker => suffix = [match |-> TRUE, remove |-> 2]
              /\ ~isMarker => suffix = [match |-> FALSE, remove |-> 1]
              /\ n > 0 => Len(shortened) = n - suffix.remove
              /\ n > 0 => shortened = SubSeq(inputBuffer, 1, Len(shortened))

\* Applied to a lone 0x00 after a marker's second byte: no marker suffix.
SuffixWitness ==
    /\ lastOp = "IsArrowMarkerSuffix"
    /\ inputBuffer = <<97, 1, 0>>
    /\ suffix = [match |-> FALSE, remove |-> 1]

\* ------------------------------------------------------------------------
\* Specification of the idle watcher (execIdle without --once, inside tmux)
\* ------------------------------------------------------------------------
defaultIdleTimeout == 300
IdleTimes == {0, 100, 250, 300, 305, 310}
IdleTimeouts == {100, defaultIdleTimeout}

\* The older loop of cmd/yule-log-idle has no latch: it launches at every
\* sample at or above the timeout.
execIdleTickNoLatch(latch, idleSeconds, limit) ==
    [launch |-> idleSeconds >= limit, latch |-> FALSE]

\* A latch that any successful sample clears, whatever its idle time.
execIdleTickClearsOnAnySample(latch, idleSeconds, limit) ==
    IF latch
    THEN [launch |-> FALSE, latch |-> FALSE]
    ELSE IF idleSeconds >= limit
         THEN [launch |-> TRUE, latch |-> TRUE]
         ELSE [launch |-> FALSE, latch |-> latch]

\* execIdle, the body of case <-ticker.C after a successful poll: whether
\* triggerScreensaver runs, and the new value of waitingForActivity.
execIdleTick(latch, idleSeconds, limit) ==
    IF latch
    THEN [launch |-> FALSE,
          latch |-> IF idleSeconds < limit THEN FALSE ELSE latch]
    ELSE IF idleSeconds >= limit
         THEN [launch |-> TRUE, latch |-> TRUE]
         ELSE [launch |-> FALSE, latch |-> latch]

IdleInit ==
    /\ timeout \in IdleTimeouts
    /\ waitingForActivity = FALSE
    /\ idlePc = "polling"
    /\ ctxDone = FALSE
    /\ ticks = 0
    /\ samples = <<>>
    /\ latchAt = <<>>
    /\ launchedAt = <<>>
    /\ polled = -1
    /\ launchedAfterSignal = FALSE
    /\ inputBuffer = <<>>
    /\ RuntimeIdle
    /\ BufferUnused
    /\ OtherUnused

\* A tick whose poll of the client activity succeeds. The poll runs under
\* the signal context, so it succeeds only while the context is live.
IdlePollOk ==
    /\ idlePc = "polling"
    /\ ~ctxDone
    /\ ticks < MaxTicks
    /\ Len(samples) < MaxSamples
    /\ \E idleSeconds \in IdleTimes :
         LET res == execIdleTick(waitingForActivity, idleSeconds, timeout)
         IN /\ samples' = Append(samples, idleSeconds)
            /\ latchAt' = Append(latchAt, waitingForActivity)
            /\ launchedAt' = Append(launchedAt, res.launch)
            /\ waitingForActivity' = res.latch
    /\ ticks' = ticks + 1
    /\ UNCHANGED <<timeout, idlePc, ctxDone, inputBuffer, runtimeVars, bufVars, sigVars, otherVars>>

\* A failed poll whose zero result is used as a sample instead of skipped.
IdlePollFailAsSample ==
    /\ idlePc = "polling"
    /\ ticks < MaxTicks
    /\ ticks' = ticks + 1
    /\ waitingForActivity' = execIdleTick(waitingForActivity, 0, timeout).latch
    /\ UNCHANGED <<timeout, idlePc, ctxDone, samples,
                   latchAt, launchedAt, inputBuffer, runtimeVars, bufVars, sigVars, otherVars>>

\* A tick whose poll fails (tmux error, empty or unparsable timestamp, or a
\* cancelled context): continue.
IdlePollFail ==
    /\ idlePc = "polling"
    /\ ticks < MaxTicks
    /\ ticks' = ticks + 1
    /\ UNCHANGED <<timeout, waitingForActivity, idlePc, ctxDone, samples,
                   latchAt, launchedAt, inputBuffer, runtimeVars, bufVars, sigVars, otherVars>>

\* SIGINT or SIGTERM cancels the context.
IdleSignal ==
    /\ idlePc = "polling"
    /\ ~ctxDone
    /\ ctxDone' = TRUE
    /\ UNCHANGED <<timeout, waitingForActivity, idlePc, ticks, samples,
                   latchAt, launchedAt, inputBuffer, runtimeVars, bufVars, sigVars, otherVars>>

\* case <-ctx.Done(): return nil
IdleStop ==
    /\ idlePc = "polling"
    /\ ctxDone
    /\ idlePc' = "stopped"
    /\ UNCHANGED <<timeout, waitingForActivity, ctxDone, ticks, samples,
                   latchAt, launchedAt, inputBuffer, runtimeVars, bufVars, sigVars, otherVars>>

IdleNext == IdlePollOk \/ IdlePollFail \/ IdleSignal \/ IdleStop

SpecIdle == IdleInit /\ [][IdleNext]_vars

\* C10: the watcher launches the screensaver at a sample iff that sample's
\* idle time is >= the timeout and the latch is clear; the latch is set by a
\* launch and cleared only by a sample below the timeout, so with timeout 300
\* the samples 0, 250, 305, 310, 100 launch exactly once, at 305.
IdleLaunchIffIdleAndLatchClear ==
    /\ Len(latchAt) = Len(samples)
    /\ Len(launchedAt) = Len(samples)
    /\ \A i \in 1..Len(samples) :
         /\ launchedAt[i] <=> (samples[i] >= timeout /\ ~latchAt[i])
         /\ latchAt[i] <=> \E j \in 1..(i - 1) :
                              /\ samples[j] >= timeout
                              /\ \A k \in (j + 1)..(i - 1) : samples[k] >= timeout
    /\ (timeout = 300 /\ samples = <<0, 250, 305, 310, 100>>)
         => launchedAt = <<FALSE, FALSE, TRUE, FALSE, FALSE>>

\* The scenario's five samples were polled, with its single launch.
IdleLaunchWitness ==
    /\ timeout = 300
    /\ samples = <<0, 250, 305, 310, 100>>
    /\ launchedAt = <<FALSE, FALSE, TRUE, FALSE, FALSE>>
    /\ ~waitingForActivity

\* C11: after a launch the watcher does not launch again until it has seen
\* a sample below the timeout; the latch is cleared only by a step that
\* records such a sample (not by a failed poll, a signal or the passing of
\* ticks); and the first sample >= timeout after the latch was cleared
\* launches again.
IdleLatchClearedOnlyByActivity ==
    /\ [][(waitingForActivity /\ ~waitingForActivity')
            => /\ Len(samples') = Len(samples) + 1
               /\ samples'[Len(samples')] < timeout]_vars
    /\ [](\A i \in 1..Len(samples) : \A j \in (i + 1)..Len(samples) :
             (launchedAt[i] /\ launchedAt[j])
                => \E k \in (i + 1)..(j - 1) : samples[k] < timeout)
    /\ [](\A i \in 1..Len(samples) : \A j \in (i + 1)..Len(samples) :
             (/\ latchAt[i]
              /\ samples[i] < timeout
              /\ samples[j] >= timeout
              /\ \A k \in (i + 1)..(j - 1) : samples[k] < timeout)
                => launchedAt[j])

\* Two launches in one run: the latch was set, cleared by a sample below
\* the timeout, and a later idle sample launched again.
IdleRelaunchWitness ==
    \E i \in 1..Len(samples) : \E j \in (i + 1)..Len(samples) :
        /\ launchedAt[i]
        /\ launchedAt[j]
        /\ ticks > Len(samples)

\* C12: a tick whose poll fails changes nothing but the tick count: the
\* latch and the launches stay as they were, the watcher keeps polling, and
\* the watcher stops only after the context was cancelled.
IdleFailedPollChangesNothing ==
    /\ [][(ticks' = ticks + 1 /\ samples' = samples)
            => /\ waitingForActivity' = waitingForActivity
               /\ launchedAt' = launchedAt
               /\ idlePc = "polling"
               /\ idlePc' = "polling"]_vars
    /\ [](idlePc = "stopped" => ctxDone)

\* Polls failed while the latch was set, and the watcher is still polling.
IdleFailedPollWitness ==
    /\ waitingForActivity
    /\ ticks >= Len(samples) + 2
    /\ idlePc = "polling"
    /\ ~ctxDone

\* ------------------------------------------------------------------------
\* Specification of the idle watcher's steps around a signal: the poll, the
\* decision, the popup sub-process and the cancellation are separate steps,
\* and SIGINT or SIGTERM may arrive between any two of them
\* ------------------------------------------------------------------------

\* case <-ticker.C with getClientIdleTime(ctx) returning an idle time; the
\* command runs under ctx, so it succeeds only while the context is live.
SigPollOk ==
    /\ idlePc = "polling"
    /\ ~ctxDone
    /\ ticks < MaxTicks
    /\ ticks' = ticks + 1
    /\ \E idleSeconds \in IdleTimes : polled' = idleSeconds
    /\ idlePc' = "polled"
    /\ UNCHANGED <<timeout, waitingForActivity, ctxDone, samples, latchAt,
                   launchedAt, launchedAfterSignal, inputBuffer, runtimeVars,
                   bufVars, otherVars>>

\* case <-ticker.C with getClientIdleTime(ctx) returning an error: continue.
SigPollFail ==
    /\ idlePc = "polling"
    /\ ticks < MaxTicks
    /\ ticks' = ticks + 1
    /\ UNCHANGED <<timeout, waitingForActivity, idlePc, ctxDone, samples,
                   latchAt, launchedAt, sigVars, inputBuffer, runtimeVars,
                   bufVars, otherVars>>

\* The latch test on the polled idle time. A launch calls triggerScreensaver,
\* whose popup command is exec.Command, not bound to ctx: it starts whether
\* or not the context has been cancelled meanwhile.
SigEvaluate ==
    /\ idlePc = "polled"
    /\ LET res == execIdleTick(waitingForActivity, polled, timeout)
       IN IF res.launch
          THEN /\ idlePc' = "launching"
               /\ launchedAfterSignal' = (launchedAfterSignal \/ ctxDone)
               /\ UNCHANGED waitingForActivity
          ELSE /\ idlePc' = "polling"
               /\ waitingForActivity' = res.latch
               /\ UNCHANGED launchedAfterSignal
    /\ polled' = -1
    /\ UNCHANGED <<timeout, ctxDone, ticks, samples, latchAt, launchedAt,
                   inputBuffer, runtimeVars, bufVars, otherVars>>

\* cmd.Run() of the popup returns (its error is ignored); the latch is set.
SigPopupExit ==
    /\ idlePc = "launching"
    /\ idlePc' = "polling"
    /\ waitingForActivity' = TRUE
    /\ UNCHANGED <<timeout, ctxDone, ticks, samples, latchAt, launchedAt,
                   sigVars, inputBuffer, runtimeVars, bufVars, otherVars>>

\* SIGINT or SIGTERM arrives, wherever the loop is; NotifyContext cancels ctx.
SigSignal ==
    /\ idlePc # "stopped"
    /\ ~ctxDone
    /\ ctxDone' = TRUE
    /\ UNCHANGED <<timeout, waitingForActivity, idlePc, ticks, samples,
                   latchAt, launchedAt, sigVars, inputBuffer, runtimeVars,
                   bufVars, otherVars>>

\* case <-ctx.Done(): return nil
SigStop ==
    /\ idlePc = "polling"
    /\ ctxDone
    /\ idlePc' = "stopped"
    /\ UNCHANGED <<timeout, waitingForActivity, ctxDone, ticks, samples,
                   latchAt, launchedAt, sigVars, inputBuffer, runtimeVars,
                   bufVars, otherVars>>

SigNext ==
    \/ SigPollOk
    \/ SigPollFail
    \/ SigEvaluate
    \/ SigPopupExit
    \/ SigSignal
    \/ SigStop

SpecIdleSignal == IdleInit /\ [][SigNext]_vars

\* C13: once SIGINT or SIGTERM has cancelled the context the watcher starts
\* no new screensaver sub-process, and it stops (returning nil) only through
\* the cancelled context.
IdleNoLaunchAfterSignal ==
    /\ ~launchedAfterSignal
    /\ idlePc = "stopped" => ctxDone

\* ------------------------------------------------------------------------
\* Specification of one run of the lock command (execLock) or of the run
\* command (execScreensaver), from its first check to its return, with the
\* screensaver session in between
\* ------------------------------------------------------------------------

\* lock.RestrictSocket: the socket becomes owner-only; the permissions it
\* had are returned for the later restore.
RestrictSocket(perm) == [perm |-> "ownerOnly", originalPerm |-> perm]

\* lock.RestoreSocket: the socket gets its original permissions back.
RestoreSocket(originalPerm) == originalPerm

LockInit ==
    /\ command \in {"lock", "run"}
    /\ cfgMode \in IF command = "lock" THEN {ModeLock} ELSE Modes
    /\ passwordExists \in BOOLEAN
    /\ tmux \in BOOLEAN
    /\ socketProtect \in IF command = "lock" THEN BOOLEAN ELSE {FALSE}
    /\ cmdPc = IF command = "lock" THEN "execLock" ELSE "execScreensaver"
    /\ result = "none"
    /\ socketPerm = "original"
    /\ lockRecord = FALSE
    /\ terminal = FALSE
    /\ history = {}
    /\ visualState = NewVisualStateWithPreset(CHOOSE p \in CooldownPresets :
                                                p.Rate = DefaultCooldownRate)
    /\ inputBuffer = <<>>
    /\ RuntimeUnused
    /\ BufferUnused
    /\ IdleUnused
    /\ SessionUnused
    /\ GridUnused
    /\ ExtraUnused

\* An execLock that leaves the password check to execScreensaver.
LockCheckPasswordSkipped ==
    /\ cmdPc = "execLock"
    /\ cmdPc' = "tmux"
    /\ UNCHANGED <<command, cfgMode, passwordExists, tmux, socketProtect,
                   result, socketPerm, lockRecord, terminal, history>>
    /\ UNCHANGED <<runtimeVars, inputBuffer, bufVars, idleVars, sessionVars, gridVars, extraVars>>

\* execLock: if !lock.PasswordExists() return the not-configured error.
LockCheckPassword ==
    /\ cmdPc = "execLock"
    /\ history' = history \cup {"credentials"}
    /\ IF passwordExists
       THEN cmdPc' = "tmux" /\ UNCHANGED result
       ELSE cmdPc' = "done" /\ result' = "noPassword"
    /\ UNCHANGED <<command, cfgMode, passwordExists, tmux, socketProtect,
                   socketPerm, lockRecord, terminal>>
    /\ UNCHANGED <<runtimeVars, inputBuffer, bufVars, idleVars, sessionVars, gridVars, extraVars>>

\* execLock: if TMUX is unset return an error.
LockCheckTmux ==
    /\ cmdPc = "tmux"
    /\ IF tmux
       THEN /\ cmdPc' = IF socketProtect THEN "restrict" ELSE "lock"
            /\ UNCHANGED result
       ELSE cmdPc' = "done" /\ result' = "notTmux"
    /\ UNCHANGED <<command, cfgMode, passwordExists, tmux, socketProtect,
                   socketPerm, lockRecord, terminal, history>>
    /\ UNCHANGED <<runtimeVars, inputBuffer, bufVars, idleVars, sessionVars, gridVars, extraVars>>

\* execLock, cfg.SocketProtect: GetTmuxSocketPath and RestrictSocket; either
\* may fail, and then the command returns with the socket untouched.
LockRestrictSocket ==
    /\ cmdPc = "restrict"
    /\ \E ok \in BOOLEAN :
         IF ok
         THEN /\ socketPerm' = RestrictSocket(socketPerm).perm
              /\ history' = history \cup {"socket"}
              /\ cmdPc' = "lock"
              /\ UNCHANGED result
         ELSE /\ cmdPc' = "done"
              /\ result' = "socketError"
              /\ UNCHANGED <<socketPerm, history>>
    /\ UNCHANGED <<command, cfgMode, passwordExists, tmux, socketProtect,
                   lockRecord, terminal>>
    /\ UNCHANGED <<runtimeVars, inputBuffer, bufVars, idleVars, sessionVars, gridVars, extraVars>>

\* execLock: lock.Lock creates the lock record; when it fails the command
\* returns through the deferred RestoreSocket.
LockCreate ==
    /\ cmdPc = "lock"
    /\ \E ok \in BOOLEAN :
         IF ok
         THEN /\ lockRecord' = TRUE
              /\ history' = history \cup {"record"}
              /\ cmdPc' = "execScreensaver"
              /\ UNCHANGED <<result, socketPerm>>
         ELSE /\ socketPerm' = RestoreSocket("original")
              /\ cmdPc' = "done"
              /\ result' = "lockError"
              /\ UNCHANGED <<lockRecord, history>>
    /\ UNCHANGED <<command, cfgMode, passwordExists, tmux, socketProtect,
                   terminal>>
    /\ UNCHANGED <<runtimeVars, inputBuffer, bufVars, idleVars, sessionVars, gridVars, extraVars>>

\* execScreensaver: in lock mode only, lock.PasswordExists() is consulted and
\* the command returns the not-configured error when there is no password.
ScreensaverCheckPassword ==
    /\ cmdPc = "execScreensaver"
    /\ IF cfgMode = ModeLock
       THEN /\ history' = history \cup {"credentials"}
            /\ IF passwordExists
               THEN cmdPc' = "newScreensaver" /\ UNCHANGED result
               ELSE cmdPc' = "unwind" /\ result' = "noPassword"
       ELSE /\ cmdPc' = "newScreensaver"
            /\ UNCHANGED <<result, history>>
    /\ UNCHANGED <<command, cfgMode, passwordExists, tmux, socketProtect,
                   socketPerm, lockRecord, terminal>>
    /\ UNCHANGED <<runtimeVars, inputBuffer, bufVars, idleVars, sessionVars, gridVars, extraVars>>

\* newScreensaver: the terminal screen is created and initialised (either
\* may fail), the state is built for cfg.mode and the terminal's size.
LockNewScreensaver ==
    /\ cmdPc = "newScreensaver"
    /\ \E ok \in BOOLEAN :
         IF ok
         THEN /\ terminal' = TRUE
              /\ history' = history \cup {"terminal"}
              /\ cmdPc' = "run"
              /\ mode' = cfgMode
              /\ pc' = "start"
              /\ \E w \in Widths, h \in Heights :
                   /\ width' = w
                   /\ height' = h
                   /\ bufferLen' = IF w <= 0 \/ h <= 0 THEN 0 ELSE w * h + w + 1
                   /\ heatSources' = IF w <= 0 \/ h <= 0 THEN 0
                                     ELSE w \div heatSourceDivisor
              /\ heatPower' = EffectiveHeatPower(visualState)
              /\ stored' \in IF passwordExists THEN StoredPasswords ELSE {<<>>}
              /\ UNCHANGED <<result, visualState, frame, framesSinceInput,
                             wrongPasswordFrames, lastEvent, lastAction,
                             lastCheck>>
         ELSE /\ cmdPc' = "unwind"
              /\ result' = "terminalError"
              /\ UNCHANGED <<terminal, history, runtimeVars>>
    /\ UNCHANGED <<command, cfgMode, passwordExists, tmux, socketProtect,
                   socketPerm, lockRecord>>
    /\ UNCHANGED <<inputBuffer, bufVars, idleVars, sessionVars, gridVars, extraVars>>

\* s.run(): the session, one step of the runtime at a time.
LockSession ==
    /\ cmdPc = "run"
    /\ RuntimeNext

\* s.run() returned: the deferred s.close() destroys the input buffer and
\* releases the terminal, and execScreensaver returns.
LockScreensaverClose ==
    /\ cmdPc = "run"
    /\ pc = "done"
    /\ inputBuffer' = Clear(inputBuffer)
    /\ terminal' = FALSE
    /\ result' = "ok"
    /\ cmdPc' = "unwind"
    /\ UNCHANGED <<command, cfgMode, passwordExists, tmux, socketProtect,
                   socketPerm, lockRecord, history>>
    /\ UNCHANGED <<runtimeVars, bufVars, idleVars, sessionVars, gridVars, extraVars>>

\* execScreensaver returned; execLock's deferred calls run, last first:
\* lock.Unlock() removes the lock record, lock.RestoreSocket restores the
\* socket. The run command has nothing deferred.
LockUnwind ==
    /\ cmdPc = "unwind"
    /\ cmdPc' = "done"
    /\ lockRecord' = IF command = "lock" THEN FALSE ELSE lockRecord
    /\ socketPerm' = IF command = "lock" /\ socketProtect
                     THEN RestoreSocket("original") ELSE socketPerm
    /\ UNCHANGED <<command, cfgMode, passwordExists, tmux, socketProtect,
                   result, terminal, history>>
    /\ UNCHANGED <<runtimeVars, inputBuffer, bufVars, idleVars, sessionVars, gridVars, extraVars>>

\* SIGINT, SIGTERM or SIGKILL is delivered to the process. Neither execLock
\* nor the runtime installs a handler, so the process ends there and no
\* deferred call runs.
LockKilled ==
    /\ cmdPc # "done"
    /\ cmdPc' = "done"
    /\ result' = "killed"
    /\ UNCHANGED <<command, cfgMode, passwordExists, tmux, socketProtect,
                   socketPerm, lockRecord, terminal, history>>
    /\ UNCHANGED <<runtimeVars, inputBuffer, bufVars, idleVars, sessionVars, gridVars, extraVars>>

LockNext ==
    \/ LockCheckPassword
    \/ LockCheckTmux
    \/ LockRestrictSocket
    \/ LockCreate
    \/ ScreensaverCheckPassword
    \/ LockNewScreensaver
    \/ LockSession
    \/ LockScreensaverClose
    \/ LockUnwind
    \/ LockKilled

SpecLock == LockInit /\ [][LockNext]_vars

\* C14: with no password record, a lock request (the lock command, or the
\* run command in lock mode) never acquires the terminal, never narrows the
\* socket and never creates the lock record, and when it returns it returns
\* the not-configured error; a Normal-mode run never consults the
\* credential store.
LockRejectedBeforeAcquiring ==
    /\ (cfgMode = ModeLock /\ ~passwordExists)
         => /\ history \cap {"terminal", "socket", "record"} = {}
            /\ ~terminal /\ ~lockRecord /\ socketPerm = "original"
            /\ (cmdPc = "done" /\ result # "killed") => result = "noPassword"
    /\ cfgMode = ModeNormal
         => "credentials" \notin history /\ lastCheck = "none"

\* The lock command, asked to protect the socket inside tmux, returned the
\* not-configured error.
LockRejectedWitness ==
    /\ command = "lock"
    /\ socketProtect
    /\ tmux
    /\ ~passwordExists
    /\ cmdPc = "done"
    /\ result = "noPassword"

\* C20: once the lock command has narrowed the socket and created the lock
\* record, however the session ends (unlock, screensaver or terminal error,
\* verification error, signal) the socket has its original permissions
\* again and the lock record is gone.
LockEndRestoresSocketAndRecord ==
    (/\ command = "lock"
     /\ cmdPc = "done"
     /\ {"socket", "record"} \subseteq history)
        => socketPerm = "original" /\ ~lockRecord

\* ------------------------------------------------------------------------
\* Specification of a lock-mode session over many frames: a few key events,
\* each arriving a chosen number of frames after the one before, and the
\* frames between and after them
\* ------------------------------------------------------------------------
MaxKeys == 3
MaxQuiet == 201
tickerPeriod == 4
SessionKeys == {KeyRune, KeyUp, KeyEnter, KeyBackspace}
KeyGaps == {0, 1, DefaultCooldownDelay, wrongPasswordDuration - 1,
            wrongPasswordDuration, inputTimeoutFrames - 1, inputTimeoutFrames}

SessionInit ==
    /\ mode = ModeLock
    /\ \E p \in CooldownPresets : visualState = NewVisualStateWithPreset(p)
    /\ heatPower = EffectiveHeatPower(visualState)
    /\ width \in Widths \ {0}
    /\ height \in Heights \ {0}
    /\ bufferLen = width * height + width + 1
    /\ heatSources = width \div heatSourceDivisor
    /\ frame = 0
    /\ inputBuffer = <<>>
    /\ framesSinceInput = 0
    /\ wrongPasswordFrames = 0
    /\ stored \in StoredPasswords
    /\ pc = "start"
    /\ lastEvent = NoEvent
    /\ lastAction = actionNone
    /\ lastCheck = "none"
    /\ BufferUnused
    /\ IdleUnused
    /\ SessionUnused
    /\ GridUnused
    /\ CmdUnused
    /\ ExtraUnused

\* processEvents takes one key event from the queue and handles it.
SessionKey ==
    /\ pc = "running"
    /\ keyCount < MaxKeys
    /\ quiet \in KeyGaps
    /\ \E key \in SessionKeys, r \in RuntimeRunes \cup {0}, ioErr \in BOOLEAN :
         /\ (key = KeyRune <=> r # 0)
         /\ (key # KeyEnter => ~ioErr)
         /\ handleKey(key, r, ioErr)
         /\ sinceWrong' = IF key = KeyEnter /\ lastAction' # actionExit
                          THEN 0 ELSE sinceWrong
    /\ keyCount' = keyCount + 1
    /\ quiet' = 0
    /\ UNCHANGED <<keyLog, bufVars, idleVars, gridVars, cmdVars, extraVars>>

\* One turn of run's loop with no event queued: updateVisualState, the
\* rendering and frame++ (the frame counter is only ever read modulo the
\* ticker's period, and is kept modulo that period).
SessionFrame ==
    /\ pc = "running"
    /\ quiet < MaxQuiet
    /\ updateVisualState
    /\ frame' = (frame + 1) % tickerPeriod
    /\ quiet' = quiet + 1
    /\ sinceWrong' = IF sinceWrong < 0 \/ sinceWrong > wrongPasswordDuration
                     THEN sinceWrong ELSE sinceWrong + 1
    /\ UNCHANGED <<mode, pc, heatSources, bufferLen, width, height, stored,
                   lastEvent, lastAction, lastCheck>>
    /\ UNCHANGED <<keyLog, keyCount, bufVars, idleVars, gridVars, cmdVars, extraVars>>

SessionNext == RunStart \/ SessionKey \/ SessionFrame

SpecSession == SessionInit /\ [][SessionNext]_vars

\* C15: in lock mode an Enter whose check does not come back valid (for
\* instance "x" when the stored password is the Up marker then "x") does not
\* end the session, leaves the buffer empty and sets wrongPasswordFrames to
\* 67; the countdown stays within 0..67, falls by one per frame and is 0
\* again 67 frames after the last failed submission.
WrongPasswordCountdown ==
    /\ [][(keyCount' = keyCount + 1 /\ lastEvent'.key = KeyEnter
              /\ (lastCheck' # "valid" \/ inputBuffer = <<120>>))
            => /\ pc' = "running"
               /\ lastAction' = actionNone
               /\ inputBuffer' = <<>>
               /\ wrongPasswordFrames' = 67]_vars
    /\ [][(quiet' = quiet + 1)
            => wrongPasswordFrames' =
                 IF wrongPasswordFrames > 0 THEN wrongPasswordFrames - 1 ELSE 0]_vars
    /\ [](wrongPasswordFrames \in 0..67)
    /\ [](wrongPasswordFrames =
            IF sinceWrong < 0 \/ sinceWrong >= 67 THEN 0 ELSE 67 - sinceWrong)

\* "x" was submitted against the stored Up marker then "x", the countdown
\* was restarted by a second failed Enter, and 67 frames later it is at 0.
WrongPasswordWitness ==
    /\ stored = ArrowUpMarker \o <<120>>
    /\ keyCount = 3
    /\ lastEvent.key = KeyEnter
    /\ lastCheck = "invalid"
    /\ sinceWrong = 67
    /\ wrongPasswordFrames = 0
    /\ pc = "running"

\* C17: in lock mode a non-empty buffer is cleared at the 200th frame after
\* the last key event and not before; the timeout counter is reset by every
\* key event, advances only while the buffer is non-empty, and is a counter
\* of its own beside VisualState.FramesSinceInput; the frame of the clearing
\* is the same under every cooldown preset.
InputTimeoutClearsBuffer ==
    /\ [](Len(inputBuffer) > 0
            => framesSinceInput = quiet /\ quiet < 200)
    /\ [](Len(inputBuffer) = 0 => framesSinceInput = 0)
    /\ [](pc = "running" => visualState.FramesSinceInput = quiet)
    /\ [][(quiet' = quiet + 1 /\ Len(inputBuffer) > 0)
            => inputBuffer' = IF quiet' = 200 THEN <<>> ELSE inputBuffer]_vars
    /\ [][(keyCount' = keyCount + 1) => framesSinceInput' = 0]_vars

\* Under the slow preset a buffer holding a rune was cleared by the 200th
\* quiet frame: the timeout counter is back at 0 while the visual state's
\* counter stands at 200.
InputTimeoutWitness ==
    /\ visualState.CooldownRate = 1
    /\ lastEvent.key = KeyRune
    /\ quiet = 200
    /\ inputBuffer = <<>>
    /\ framesSinceInput = 0
    /\ visualState.FramesSinceInput = 200

\* ------------------------------------------------------------------------
\* Specification of a lock-mode session whose key events are logged: runes
\* a, b, c, Backspace and Enter in any order, against the stored password
\* "abc" or "ac"; the credential store is read without error
\* ------------------------------------------------------------------------
MaxScenarioKeys == 5
ScenarioRunes == {97, 98, 99}
ScenarioPasswords == {<<97, 98, 99>>, <<97, 99>>}
ScenarioKeys == {KeyRune, KeyBackspace, KeyEnter}
ScenarioLog == <<EventKey(KeyRune, 97), EventKey(KeyRune, 98),
                 EventKey(KeyBackspace, 0), EventKey(KeyRune, 99),
                 EventKey(KeyEnter, 0)>>

ScenarioInit ==
    /\ mode = ModeLock
    /\ visualState = NewVisualStateWithPreset(CHOOSE p \in CooldownPresets :
                                                p.Rate = DefaultCooldownRate)
    /\ heatPower = EffectiveHeatPower(visualState)
    /\ width \in Widths \ {0}
    /\ height \in Heights \ {0}
    /\ bufferLen = width * height + width + 1
    /\ heatSources = width \div heatSourceDivisor
    /\ frame = 0
    /\ inputBuffer = <<>>
    /\ framesSinceInput = 0
    /\ wrongPasswordFrames = 0
    /\ stored \in ScenarioPasswords
    /\ pc = "start"
    /\ lastEvent = NoEvent
    /\ lastAction = actionNone
    /\ lastCheck = "none"
    /\ BufferUnused
    /\ IdleUnused
    /\ SessionUnused
    /\ GridUnused
    /\ CmdUnused
    /\ ExtraUnused

\* processEvents takes one key event from the queue and handles it.
ScenarioKey ==
    /\ pc = "running"
    /\ keyCount < MaxScenarioKeys
    /\ \E key \in ScenarioKeys, r \in ScenarioRunes \cup {0} :
         /\ (key = KeyRune <=> r # 0)
         /\ handleKey(key, r, FALSE)
         /\ keyLog' = Append(keyLog, EventKey(key, r))
    /\ keyCount' = keyCount + 1
    /\ UNCHANGED <<quiet, sinceWrong, bufVars, idleVars, gridVars, cmdVars, extraVars>>

ScenarioNext == RunStart \/ ScenarioKey \/ Frame

SpecScenario == ScenarioInit /\ [][ScenarioNext]_vars

\* C16 as stated: with the stored password "abc", the keys 'a', 'b',
\* Backspace, 'c', Enter end the session with the exit action.
ScenarioUnlocksAbc ==
    (stored = <<97, 98, 99>> /\ keyLog = ScenarioLog)
        => pc = "done" /\ lastAction = actionExit

\* C16, amended: the keys 'a', 'b', Backspace, 'c' leave "ac" in the buffer,
\* so the Enter that follows unlocks exactly when the stored password is
\* "ac"; with the stored password "abc" it is a failed submission: no exit,
\* the check comes back invalid and the buffer is cleared.
ScenarioSubmitsAc ==
    /\ keyLog = SubSeq(ScenarioLog, 1, 4) => inputBuffer = <<97, 99>>
    /\ keyLog = ScenarioLog
         => IF stored = <<97, 99>>
            THEN pc = "done" /\ lastAction = actionExit /\ lastCheck = "valid"
            ELSE /\ pc = "running"
                 /\ lastAction = actionNone
                 /\ lastCheck = "invalid"
                 /\ inputBuffer = <<>>
                 /\ wrongPasswordFrames > 0

\* The scenario's five keys were handled against the stored password "abc".
ScenarioWitness ==
    /\ stored = <<97, 98, 99>>
    /\ keyLog = ScenarioLog
    /\ lastCheck = "invalid"

\* ------------------------------------------------------------------------
\* Heat grid: s.buffer holds width*height cells followed by width+1 slack
\* cells; the code's buffer[i] is buffer[i + 1] here
\* ------------------------------------------------------------------------

\* screensaver.generateHeat with the random columns it drew: heatPower is
\* written into the bottom row at each of them.
\* An injection one row too low: bottomRow taken as width * height.
generateHeatIntoSlack(buf, cols, w, h, power) ==
    [k \in 1..Len(buf) |->
        IF \E col \in cols : k = col + w * h + 1 THEN power ELSE buf[k]]

generateHeat(buf, cols, w, h, power) ==
    [k \in 1..Len(buf) |->
        IF \E col \in cols : k = col + w * (h - 1) + 1 THEN power ELSE buf[k]]

\* A sweep from the last cell to the first: each cell reads the neighbours
\* the same pass has already rewritten.
RECURSIVE renderFireBackwardFrom(_, _, _, _)
renderFireBackwardFrom(buf, i, w, h) ==
    IF i < 0 THEN buf
    ELSE renderFireBackwardFrom(
           [buf EXCEPT ![i + 1] = (buf[i + 1] + buf[i + 2] + buf[i + w + 1]
                                     + buf[i + w + 2]) \div 4],
           i - 1, w, h)

\* An average that rounds up instead of down.
RECURSIVE renderFireRoundUpFrom(_, _, _, _)
renderFireRoundUpFrom(buf, i, w, h) ==
    IF i >= w * h THEN buf
    ELSE renderFireRoundUpFrom(
           [buf EXCEPT ![i + 1] = (buf[i + 1] + buf[i + 2] + buf[i + w + 1]
                                     + buf[i + w + 2] + 3) \div 4],
           i + 1, w, h)

\* screensaver.renderFire, the loop from cell i on: buffer[i] becomes the
\* integer average of buffer[i], buffer[i+1], buffer[i+width] and
\* buffer[i+width+1], in place, for i = 0 .. size-1 in that order.
RECURSIVE renderFireFrom(_, _, _, _)
renderFireFrom(buf, i, w, h) ==
    IF i >= w * h THEN buf
    ELSE renderFireFrom(
           [buf EXCEPT ![i + 1] = (buf[i + 1] + buf[i + 2] + buf[i + w + 1]
                                     + buf[i + w + 2]) \div 4],
           i + 1, w, h)

renderFireBackward(buf, w, h) == renderFireBackwardFrom(buf, w * h - 1, w, h)

renderFireRoundUp(buf, w, h) == renderFireRoundUpFrom(buf, 0, w, h)

\* screensaver.renderFire: one diffusion pass over the grid.
renderFire(buf, w, h) == renderFireFrom(buf, 0, w, h)

\* ------------------------------------------------------------------------
\* Specification of the heat grid over a few frames: any grid of a few
\* cells with zero slack cells, then renderFrame's generateHeat and
\* renderFire frame after frame
\* ------------------------------------------------------------------------
MaxGridFrames == 3
HeatValues == {0, 1, 2, BaseHeatPower}
GridDims == {<<1, 1>>, <<2, 1>>, <<3, 1>>, <<1, 2>>, <<2, 2>>, <<3, 2>>,
             <<heatSourceDivisor, 1>>}

GridInit ==
    /\ \E d \in GridDims : width = d[1] /\ height = d[2]
    /\ bufferLen = width * height + width + 1
    /\ heatSources = width \div heatSourceDivisor
    /\ \E cells \in [1..(width * height) -> HeatValues] :
         buffer = [k \in 1..bufferLen |->
                     IF k <= width * height THEN cells[k] ELSE 0]
    /\ oldBuffer = buffer
    /\ mode = ModeNormal
    /\ pc = "running"
    /\ visualState = NewVisualStateWithPreset(CHOOSE p \in CooldownPresets :
                                                p.Rate = DefaultCooldownRate)
    /\ heatPower = EffectiveHeatPower(visualState)
    /\ frame = 0
    /\ inputBuffer = <<>>
    /\ framesSinceInput = 0
    /\ wrongPasswordFrames = 0
    /\ stored = <<>>
    /\ lastEvent = NoEvent
    /\ lastAction = actionNone
    /\ lastCheck = "none"
    /\ BufferUnused
    /\ IdleUnused
    /\ SessionUnused
    /\ CmdUnused
    /\ ExtraUnused

\* screensaver.renderFrame: generateHeat writes heatPower at s.heatSources
\* random columns of the bottom row (which may coincide), then renderFire
\* runs one diffusion pass; run's loop then counts the frame.
GridRenderFrame ==
    /\ frame < MaxGridFrames
    /\ \E cols \in SUBSET (0..(width - 1)) :
         /\ Cardinality(cols) <= heatSources
         /\ heatSources > 0 => cols # {}
         /\ oldBuffer' = generateHeat(buffer, cols, width, height, heatPower)
    /\ buffer' = renderFire(oldBuffer', width, height)
    /\ frame' = frame + 1
    /\ UNCHANGED <<mode, pc, visualState, heatPower, heatSources, bufferLen,
                   width, height, framesSinceInput, wrongPasswordFrames,
                   stored, lastEvent, lastAction, lastCheck, inputBuffer>>
    /\ UNCHANGED <<bufVars, idleVars, sessionVars, cmdVars, extraVars>>

GridNext == GridRenderFrame

SpecGrid == GridInit /\ [][GridNext]_vars

\* C18: after a diffusion pass each cell i in [0, width*height) holds
\* floor((old[i] + old[i+1] + old[i+width] + old[i+width+1]) / 4), old
\* being the grid as it was when the pass began; the slack cells are as
\* they were.
DiffusionAveragesOldGrid ==
    frame > 0 =>
        /\ Len(buffer) = Len(oldBuffer)
        /\ \A i \in 0..(width * height - 1) :
             buffer[i + 1] = (oldBuffer[i + 1] + oldBuffer[i + 2]
                                + oldBuffer[i + width + 1]
                                + oldBuffer[i + width + 2]) \div 4
        /\ \A k \in (width * height + 1)..Len(buffer) : buffer[k] = oldBuffer[k]

\* A pass over a 3x2 grid whose cells were not all equal: a cell that was
\* cold took heat from its neighbours while a hot one cooled.
DiffusionWitness ==
    /\ frame > 0
    /\ width = 3
    /\ height = 2
    /\ \E i, j \in 1..(width * height) :
         buffer[i] > oldBuffer[i] /\ buffer[j] < oldBuffer[j]

\* ------------------------------------------------------------------------
\* Specification of the heat grid left to cool: any such grid, then
\* diffusion passes only, with no heat written between them
\* ------------------------------------------------------------------------

DecayDims == {<<1, 1>>, <<2, 1>>, <<3, 1>>, <<1, 2>>, <<2, 2>>}

DecayInit ==
    /\ GridInit
    /\ <<width, height>> \in DecayDims

\* screensaver.renderFire, pass after pass.
DecayPass ==
    /\ oldBuffer' = buffer
    /\ buffer' = renderFire(buffer, width, height)
    /\ UNCHANGED <<runtimeVars, inputBuffer, bufVars, idleVars, sessionVars,
                   cmdVars, extraVars>>

DecayNext == DecayPass

SpecDecay == DecayInit /\ [][DecayNext]_vars /\ WF_vars(DecayPass)

GridMax(buf) == CHOOSE m \in {buf[k] : k \in 1..Len(buf)} :
                    \A k \in 1..Len(buf) : buf[k] <= m

\* C19 as stated: without injection every cell stays non-negative, no cell's
\* value increases from one pass to the next, and in the end every cell is
\* 0 for good.
DecayNoCellIncreases ==
    /\ [](\A k \in 1..Len(buffer) : buffer[k] >= 0)
    /\ [][\A k \in 1..Len(buffer) : buffer'[k] <= buffer[k]]_vars
    /\ <>[](\A k \in 1..Len(buffer) : buffer[k] = 0)

\* C19, amended: without injection every cell stays non-negative, the
\* largest value in the grid never increases from one pass to the next
\* (a single cell may: a cold cell takes heat from hotter neighbours), and
\* after finitely many passes every cell is 0 and remains 0.
DecayMaxNeverIncreases ==
    /\ [](\A k \in 1..Len(buffer) : buffer[k] >= 0)
    /\ [][GridMax(buffer') <= GridMax(buffer)]_vars
    /\ <>[](\A k \in 1..Len(buffer) : buffer[k] = 0)

\* A pass in which one cell's value rose.
DecayWitness ==
    \E k \in 1..Len(buffer) : buffer[k] > oldBuffer[k]

\* C21: when the runtime was constructed in lock mode, the input buffer is
\* destroyed on every path by which the runtime stops (unlock, exit on a
\* resize to zero size, error return, interruption by a signal), and no
\* later than the terminal is released.
LockBufferDestroyedOnEveryStop ==
    (/\ cfgMode = ModeLock
     /\ "terminal" \in history
     /\ (cmdPc = "done" \/ ~terminal))
        => inputBuffer = <<>>

\* ------------------------------------------------------------------------
\* Specification of one call of readPasswordWithArrows (set-password): raw
\* mode, reads of a few bytes each, and SIGINT or SIGTERM during the reads
\* ------------------------------------------------------------------------
byteEscape == 27
byteCtrlC == 3
byteBackspace == 127
byteDelete == 8
bytePrintableStart == 32
bytePrintableEnd == 127
readBufSize == 16
MaxPwLen == 3

\* lock.ClearBytes: every byte of the slice is overwritten with zero.
ClearBytes(b) == [k \in 1..Len(b) |-> 0]

AllZero(b) == \A k \in 1..Len(b) : b[k] = 0

\* ESC [ A/B/C/D: the marker appended for the arrow's final byte.
ArrowByteMarker(b) ==
    CASE b = 65 -> ArrowUpMarker
      [] b = 66 -> ArrowDownMarker
      [] b = 67 -> ArrowRightMarker
      [] b = 68 -> ArrowLeftMarker

\* readPasswordWithArrows, the loop over the n bytes of one read, from byte
\* i on (buf[i - 1] in the code): the password slice, displayLen and, when
\* a byte makes the function return, how (ret).
RECURSIVE readLoop(_, _, _, _)
readLoop(pwd, dl, chunk, i) ==
    IF i > Len(chunk) THEN [password |-> pwd, displayLen |-> dl, ret |-> "none"]
    ELSE LET b == chunk[i]
         IN IF b = 13 \/ b = 10
            THEN [password |-> pwd, displayLen |-> dl, ret |-> "ok"]
            ELSE IF b = byteEscape
            THEN IF /\ i + 2 <= Len(chunk)
                    /\ chunk[i + 1] = 91
                    /\ chunk[i + 2] \in {65, 66, 67, 68}
                 THEN readLoop(pwd \o ArrowByteMarker(chunk[i + 2]), dl + 1,
                               chunk, i + 3)
                 ELSE [password |-> ClearBytes(pwd), displayLen |-> dl,
                       ret |-> "cancel"]
            ELSE IF b = byteCtrlC
            THEN [password |-> ClearBytes(pwd), displayLen |-> dl,
                  ret |-> "interrupted"]
            ELSE IF b = byteBackspace \/ b = byteDelete
            THEN IF Len(pwd) > 0 /\ dl > 0
                 THEN readLoop(handlePasswordBackspace(pwd), dl - 1, chunk, i + 1)
                 ELSE readLoop(pwd, dl, chunk, i + 1)
            ELSE IF b >= bytePrintableStart /\ b < bytePrintableEnd
            THEN readLoop(Append(pwd, b), dl + 1, chunk, i + 1)
            ELSE readLoop(pwd, dl, chunk, i + 1)

\* What one os.Stdin.Read may deliver: single keys, whole arrow sequences,
\* an arrow sequence cut short, and keys typed ahead.
PwChunks == {<<97>>, <<91>>, <<13>>, <<byteEscape>>, <<byteCtrlC>>,
             <<byteBackspace>>, <<byteDelete>>, <<1>>,
             <<byteEscape, 91, 65>>, <<byteEscape, 91, 67>>,
             <<byteEscape, 91>>, <<byteEscape, 91, 90>>,
             <<97, byteBackspace>>, <<97, 98, 13>>,
             <<byteEscape, 91, 68, byteBackspace>>}

PwInit ==
    /\ rpPc = "start"
    /\ rawMode = FALSE
    /\ passwordBytes = <<>>
    /\ displayLen = 0
    /\ readBuf = [k \in 1..readBufSize |-> 0]
    /\ rpResult = "none"
    /\ lastChunk = <<>>
    /\ inputBuffer = <<>>
    /\ RuntimeIdle
    /\ BufferUnused
    /\ IdleUnused
    /\ SessionUnused
    /\ GridUnused
    /\ CmdUnused
    /\ LoopUnused
    /\ CoolUnused
    /\ LateUnused

\* term.IsTerminal and term.MakeRaw: either may fail, and then the call
\* returns an error with the terminal untouched.
PwMakeRaw ==
    /\ rpPc = "start"
    /\ \E ok \in BOOLEAN :
         IF ok
         THEN rpPc' = "reading" /\ rawMode' = TRUE /\ UNCHANGED rpResult
         ELSE rpPc' = "returned" /\ rpResult' = "error" /\ UNCHANGED rawMode
    /\ UNCHANGED <<passwordBytes, displayLen, readBuf, lastChunk>>
    /\ UNCHANGED <<runtimeVars, inputBuffer, bufVars, idleVars, sessionVars,
                   gridVars, cmdVars, loopVars, coolVars, lateVars>>

\* os.Stdin.Read(buf) returns n bytes and the loop handles them. A return
\* runs the deferred calls: ClearBytes(buf) and term.Restore.
PwRead ==
    /\ rpPc = "reading"
    /\ \E chunk \in PwChunks :
         LET res == readLoop(passwordBytes, displayLen, chunk, 1)
             filled == [k \in 1..readBufSize |->
                          IF k <= Len(chunk) THEN chunk[k] ELSE readBuf[k]]
         IN /\ Len(res.password) <= MaxPwLen
            /\ passwordBytes' = res.password
            /\ lastChunk' = chunk
            /\ displayLen' = res.displayLen
            /\ IF res.ret = "none"
               THEN /\ readBuf' = filled
                    /\ UNCHANGED <<rpPc, rawMode, rpResult>>
               ELSE /\ readBuf' = ClearBytes(filled)
                    /\ rawMode' = FALSE
                    /\ rpPc' = "returned"
                    /\ rpResult' = res.ret
    /\ UNCHANGED <<runtimeVars, inputBuffer, bufVars, idleVars, sessionVars,
                   gridVars, cmdVars, loopVars, coolVars, lateVars>>

\* os.Stdin.Read fails: io.EOF returns the password so far, any other error
\* clears it; the deferred calls run.
PwReadError ==
    /\ rpPc = "reading"
    /\ \E eof \in BOOLEAN :
         /\ passwordBytes' = IF eof THEN passwordBytes
                             ELSE ClearBytes(passwordBytes)
         /\ rpResult' = IF eof THEN "ok" ELSE "error"
    /\ readBuf' = ClearBytes(readBuf)
    /\ rawMode' = FALSE
    /\ rpPc' = "returned"
    /\ UNCHANGED <<displayLen, lastChunk>>
    /\ UNCHANGED <<runtimeVars, inputBuffer, bufVars, idleVars, sessionVars,
                   gridVars, cmdVars, loopVars, coolVars, lateVars>>

\* SIGINT or SIGTERM while the call is reading: the goroutine restores the
\* terminal and calls os.Exit(1), which runs no deferred call.
PwSignal ==
    /\ rpPc = "reading"
    /\ rawMode' = FALSE
    /\ rpPc' = "exited"
    /\ rpResult' = "signal"
    /\ UNCHANGED <<passwordBytes, displayLen, readBuf, lastChunk>>
    /\ UNCHANGED <<runtimeVars, inputBuffer, bufVars, idleVars, sessionVars,
                   gridVars, cmdVars, loopVars, coolVars, lateVars>>

PwNext == PwMakeRaw \/ PwRead \/ PwReadError \/ PwSignal

SpecSetPassword == PwInit /\ [][PwNext]_vars

\* C22: when SIGINT or SIGTERM ends the process while set-password reads a
\* password in raw mode, the terminal has been restored and every byte of
\* the partially entered password and of the read buffer is zero.
SetPasswordSignalWipes ==
    rpPc = "exited"
        => /\ ~rawMode
           /\ AllZero(passwordBytes)
           /\ AllZero(readBuf)

\* ------------------------------------------------------------------------
\* Specification of the render loop (run, processEvents, renderFrame, close)
\* running beside the event-poll goroutine (pollEvents), one step at a time
\* ------------------------------------------------------------------------
eventQueueCap == 10
MaxPolled == 12

LoopKeys == {KeyUp, KeyDown, KeyEscape}

\* run and renderFrame: the step that follows each step of an iteration,
\* here with the heat injected before the visual state is advanced.
loopStepAfterInjectFirst(step) ==
    CASE step = "drain" -> "inject"
      [] step = "inject" -> "update"
      [] step = "update" -> "diffuse"
      [] step = "diffuse" -> "indicator"
      [] step = "indicator" -> "ticker"
      [] step = "ticker" -> "show"
      [] step = "show" -> "sleep"
      [] step = "sleep" -> "drain"

\* run and renderFrame: the step that follows each step of an iteration.
loopStepAfter(step) ==
    CASE step = "drain" -> "update"
      [] step = "update" -> "inject"
      [] step = "inject" -> "diffuse"
      [] step = "diffuse" -> "indicator"
      [] step = "indicator" -> "ticker"
      [] step = "ticker" -> "show"
      [] step = "show" -> "sleep"
      [] step = "sleep" -> "drain"

\* The log of the iteration that processEvents belongs to: a new one when
\* the previous iteration has slept.
drainLog ==
    IF stepLog = <<>> \/ stepLog[Len(stepLog)] = "sleep"
    THEN <<"drain">>
    ELSE stepLog

loopRest == <<bufVars, idleVars, sessionVars, gridVars, cmdVars, pwVars, coolVars,
             lateVars>>

\* newScreensaver in normal mode: the event queue is empty, the poll
\* goroutine is not started yet.
LoopInit ==
    /\ mode = ModeNormal
    /\ visualState = NewVisualStateWithPreset(
                        [Rate |-> DefaultCooldownRate, Delay |-> DefaultCooldownDelay])
    /\ heatPower = EffectiveHeatPower(visualState)
    /\ width \in Widths
    /\ height \in Heights
    /\ bufferLen = IF width <= 0 \/ height <= 0 THEN 0
                   ELSE width * height + width + 1
    /\ heatSources = IF width <= 0 \/ height <= 0 THEN 0
                     ELSE width \div heatSourceDivisor
    /\ frame = 0
    /\ inputBuffer = <<>>
    /\ framesSinceInput = 0
    /\ wrongPasswordFrames = 0
    /\ stored = <<>>
    /\ pc = "start"
    /\ lastEvent = NoEvent
    /\ lastAction = actionNone
    /\ lastCheck = "none"
    /\ events = <<>>
    /\ pollPc = "notStarted"
    /\ pollEv = 0
    /\ polledCount = 0
    /\ loopPc = "start"
    /\ stepLog = <<>>
    /\ finied = FALSE
    /\ injected = 0
    /\ handled = <<>>
    /\ BufferUnused
    /\ IdleUnused
    /\ SessionUnused
    /\ GridUnused
    /\ CmdUnused
    /\ PwUnused
    /\ CoolUnused
    /\ LateUnused

\* run up to the loop: a terminal of zero size returns at once, before the
\* poll goroutine is started; otherwise go s.pollEvents().
LoopRunStart ==
    /\ loopPc = "start"
    /\ IF width <= 0 \/ height <= 0
       THEN /\ loopPc' = "close"
            /\ pc' = "done"
            /\ UNCHANGED pollPc
       ELSE /\ loopPc' = "drain"
            /\ pc' = "running"
            /\ pollPc' = "polling"
    /\ UNCHANGED <<mode, visualState, heatPower, heatSources, bufferLen, width,
                   height, frame, framesSinceInput, wrongPasswordFrames, stored,
                   lastEvent, lastAction, lastCheck, inputBuffer>>
    /\ UNCHANGED <<events, pollEv, polledCount, stepLog, finied, injected, handled>>
    /\ UNCHANGED loopRest

\* processEvents, case ev := <-s.events: the head of the queue is handled
\* (which key it is does not matter to the queue, so it is drawn here); an
\* exit action makes run return, and the deferred close follows.
LoopDrainOne ==
    /\ loopPc = "drain"
    /\ events # <<>>
    /\ events' = Tail(events)
    /\ stepLog' = drainLog
    /\ \E key \in LoopKeys : handleKey(key, 0, FALSE)
    /\ loopPc' = IF lastAction' = actionExit THEN "close" ELSE "drain"
    /\ handled' = Append(handled, Head(events))
    /\ UNCHANGED <<pollPc, pollEv, polledCount, finied, injected>>
    /\ UNCHANGED loopRest

\* processEvents with a receive that waits for an event instead of the
\* default case.
LoopDrainEmptyBlocks ==
    /\ FALSE
    /\ UNCHANGED vars

\* processEvents, default case: the queue is empty and the drain returns
\* false at once.
LoopDrainEmpty ==
    /\ loopPc = "drain"
    /\ events = <<>>
    /\ stepLog' = drainLog
    /\ loopPc' = loopStepAfter("drain")
    /\ UNCHANGED <<runtimeVars, inputBuffer>>
    /\ UNCHANGED <<events, pollPc, pollEv, polledCount, finied, injected, handled>>
    /\ UNCHANGED loopRest

\* s.updateVisualState()
LoopUpdate ==
    /\ loopPc = "update"
    /\ updateVisualState
    /\ stepLog' = Append(stepLog, "OnFrame")
    /\ loopPc' = loopStepAfter("update")
    /\ UNCHANGED <<mode, pc, heatSources, bufferLen, width, height, frame, stored,
                   lastEvent, lastAction, lastCheck>>
    /\ UNCHANGED <<events, pollPc, pollEv, polledCount, finied, injected, handled>>
    /\ UNCHANGED loopRest

\* renderFrame: s.generateHeat() writes s.heatPower into the bottom row.
LoopInject ==
    /\ loopPc = "inject"
    /\ injected' = heatPower
    /\ stepLog' = Append(stepLog, "inject")
    /\ loopPc' = loopStepAfter("inject")
    /\ UNCHANGED <<runtimeVars, inputBuffer>>
    /\ UNCHANGED <<events, pollPc, pollEv, polledCount, finied, handled>>
    /\ UNCHANGED loopRest

\* renderFrame: s.renderFire(), s.renderPasswordIndicator(), s.renderTicker()
LoopRender ==
    /\ loopPc \in {"diffuse", "indicator", "ticker"}
    /\ stepLog' = Append(stepLog, loopPc)
    /\ loopPc' = loopStepAfter(loopPc)
    /\ UNCHANGED <<runtimeVars, inputBuffer>>
    /\ UNCHANGED <<events, pollPc, pollEv, polledCount, finied, injected, handled>>
    /\ UNCHANGED loopRest

\* renderFrame: s.screen.Show()
LoopShow ==
    /\ loopPc = "show"
    /\ stepLog' = Append(stepLog, "present")
    /\ loopPc' = loopStepAfter("show")
    /\ UNCHANGED <<runtimeVars, inputBuffer>>
    /\ UNCHANGED <<events, pollPc, pollEv, polledCount, finied, injected, handled>>
    /\ UNCHANGED loopRest

\* time.Sleep(frameDelay); s.frame++
LoopSleep ==
    /\ loopPc = "sleep"
    /\ frame < MaxFrame
    /\ frame' = frame + 1
    /\ stepLog' = Append(stepLog, "sleep")
    /\ loopPc' = loopStepAfter("sleep")
    /\ UNCHANGED <<mode, pc, visualState, heatPower, heatSources, bufferLen,
                   width, height, framesSinceInput, wrongPasswordFrames, stored,
                   lastEvent, lastAction, lastCheck, inputBuffer>>
    /\ UNCHANGED <<events, pollPc, pollEv, polledCount, finied, injected, handled>>
    /\ UNCHANGED loopRest

\* close: the input buffer (none in normal mode) is destroyed and
\* s.screen.Fini() is called.
LoopClose ==
    /\ loopPc = "close"
    /\ inputBuffer' = <<>>
    /\ finied' = TRUE
    /\ loopPc' = "wait"
    /\ UNCHANGED runtimeVars
    /\ UNCHANGED <<events, pollPc, pollEv, polledCount, stepLog, injected, handled>>
    /\ UNCHANGED loopRest

\* close, case <-s.pollDone
LoopWaitDone ==
    /\ loopPc = "wait"
    /\ pollPc = "done"
    /\ loopPc' = "closed"
    /\ UNCHANGED <<runtimeVars, inputBuffer>>
    /\ UNCHANGED <<events, pollPc, pollEv, polledCount, stepLog, finied, injected, handled>>
    /\ UNCHANGED loopRest

\* close, case <-time.After(100 * time.Millisecond). A poll goroutine that
\* can take a step is taken to do so within the 100 ms, so the timeout
\* fires only when the goroutine was never started or cannot move: it is
\* sending into a full queue.
LoopWaitTimeout ==
    /\ loopPc = "wait"
    /\ \/ pollPc = "notStarted"
       \/ pollPc = "sending" /\ Len(events) = eventQueueCap
    /\ loopPc' = "closed"
    /\ UNCHANGED <<runtimeVars, inputBuffer>>
    /\ UNCHANGED <<events, pollPc, pollEv, polledCount, stepLog, finied, injected, handled>>
    /\ UNCHANGED loopRest

\* pollEvents: s.screen.PollEvent() returns an event.
PollEventReturns ==
    /\ pollPc = "polling"
    /\ ~finied
    /\ polledCount < MaxPolled
    /\ polledCount' = polledCount + 1
    /\ pollEv' = polledCount + 1
    /\ pollPc' = "sending"
    /\ UNCHANGED <<runtimeVars, inputBuffer>>
    /\ UNCHANGED <<events, loopPc, stepLog, finied, injected, handled>>
    /\ UNCHANGED loopRest

\* pollEvents: after screen.Fini(), PollEvent returns nil; the goroutine
\* returns and the deferred close(s.pollDone) runs.
PollEventNil ==
    /\ pollPc = "polling"
    /\ finied
    /\ pollPc' = "done"
    /\ UNCHANGED <<runtimeVars, inputBuffer>>
    /\ UNCHANGED <<events, pollEv, polledCount, loopPc, stepLog, finied, injected, handled>>
    /\ UNCHANGED loopRest

\* pollEvents with a send that gives the event up when the queue is full.
PollSendDiscards ==
    /\ pollPc = "sending"
    /\ events' = IF Len(events) < eventQueueCap THEN Append(events, pollEv)
                 ELSE events
    /\ pollEv' = 0
    /\ pollPc' = "polling"
    /\ UNCHANGED <<runtimeVars, inputBuffer>>
    /\ UNCHANGED <<polledCount, loopPc, stepLog, finied, injected, handled>>
    /\ UNCHANGED loopRest

\* pollEvents: s.events <- ev, possible while the queue holds fewer than
\* its capacity.
PollSend ==
    /\ pollPc = "sending"
    /\ Len(events) < eventQueueCap
    /\ events' = Append(events, pollEv)
    /\ pollEv' = 0
    /\ pollPc' = "polling"
    /\ UNCHANGED <<runtimeVars, inputBuffer>>
    /\ UNCHANGED <<polledCount, loopPc, stepLog, finied, injected, handled>>
    /\ UNCHANGED loopRest

LoopThread ==
    \/ LoopRunStart
    \/ LoopDrainOne
    \/ LoopDrainEmpty
    \/ LoopUpdate
    \/ LoopInject
    \/ LoopRender
    \/ LoopShow
    \/ LoopSleep
    \/ LoopClose
    \/ LoopWaitDone
    \/ LoopWaitTimeout

PollThread == PollEventReturns \/ PollEventNil \/ PollSend

LoopNext == LoopThread \/ PollThread

SpecLoop == LoopInit /\ [][LoopNext]_vars

\* C23: when close has returned, the event-poll goroutine has terminated
\* (or was never started): it is never left alive, blocked on sending an
\* event into the queue that is no longer drained.
CloseLeavesNoPollThread ==
    loopPc = "closed" => pollPc \in {"notStarted", "done"}

LoopOrder == <<"drain", "OnFrame", "inject", "diffuse", "indicator", "ticker",
               "present", "sleep">>

\* C28: the steps of every loop iteration happen in the fixed order drain,
\* OnFrame, inject, diffuse, indicator, ticker, present, sleep; the heat
\* injected is the EffectiveHeatPower that OnFrame left; and when the drain
\* yields an exit action no later step of that iteration runs.
LoopStepsInFixedOrder ==
    /\ Len(stepLog) <= Len(LoopOrder)
    /\ stepLog = SubSeq(LoopOrder, 1, Len(stepLog))
    /\ Len(stepLog) >= 3 => injected = EffectiveHeatPower(visualState)
    /\ (loopPc \in {"close", "wait", "closed"} /\ stepLog # <<>>)
           => stepLog = <<"drain">>

LoopStepsWitness ==
    /\ stepLog = LoopOrder
    /\ injected = BaseHeatPower + BurstHeat

\* C29: the render loop never blocks on input. While it drains, it can
\* always take a step; with an empty queue that step ends the drain at
\* once and goes on to the frame, and otherwise it handles the first
\* queued event and goes on draining unless that event yields an exit.
DrainNeverBlocks ==
    /\ [](loopPc = "drain" => ENABLED (LoopDrainOne \/ LoopDrainEmpty))
    /\ [][loopPc = "drain" /\ loopPc' # loopPc
            => \/ events = <<>> /\ events' = <<>> /\ loopPc' = "update"
               \/ events # <<>> /\ lastAction' = actionExit /\ loopPc' = "close"]_vars
    /\ [][loopPc = "drain" /\ events # <<>> /\ events' # events /\ Len(events') < Len(events)
            => /\ events' = Tail(events)
               /\ lastEvent'.type = "key"
               /\ loopPc' = IF lastAction' = actionExit THEN "close" ELSE "drain"]_vars

DrainWitness ==
    /\ stepLog = LoopOrder
    /\ polledCount = 0

\* ------------------------------------------------------------------------
\* Specification of the heat grid's allocation: newScreensaver, then resize
\* events of any size
\* ------------------------------------------------------------------------
MaxResizeWidth == 8
MaxResizeHeight == 3

ResizeWidths == 0..MaxResizeWidth
ResizeHeights == 0..MaxResizeHeight

\* make([]int, size+s.width+1): a fresh slice, every cell zero.
makeBuffer(w, h) == [k \in 1..(w * h + w + 1) |-> 0]

\* newScreensaver in normal mode on a terminal of any size: resize() has
\* allocated the grid when both dimensions are positive.
ResizeInit ==
    /\ mode = ModeNormal
    /\ visualState = NewVisualStateWithPreset(
                        [Rate |-> DefaultCooldownRate, Delay |-> DefaultCooldownDelay])
    /\ heatPower = EffectiveHeatPower(visualState)
    /\ width \in ResizeWidths
    /\ height \in ResizeHeights
    /\ bufferLen = IF width <= 0 \/ height <= 0 THEN 0
                   ELSE width * height + width + 1
    /\ heatSources = IF width <= 0 \/ height <= 0 THEN 0
                     ELSE width \div heatSourceDivisor
    /\ buffer = IF width <= 0 \/ height <= 0 THEN <<>>
                ELSE makeBuffer(width, height)
    /\ oldBuffer = <<>>
    /\ frame = 0
    /\ inputBuffer = <<>>
    /\ framesSinceInput = 0
    /\ wrongPasswordFrames = 0
    /\ stored = <<>>
    /\ pc = "start"
    /\ lastEvent = NoEvent
    /\ lastAction = actionNone
    /\ lastCheck = "none"
    /\ BufferUnused
    /\ IdleUnused
    /\ SessionUnused
    /\ CmdUnused
    /\ ExtraUnused

\* handleEvent, case *tcell.EventResize, with the grid that resize allocates.
ResizeGrid ==
    /\ pc = "running"
    /\ \E w \in ResizeWidths, h \in ResizeHeights :
         /\ handleResize(w, h)
         /\ buffer' = IF w <= 0 \/ h <= 0 THEN buffer ELSE makeBuffer(w, h)
    /\ UNCHANGED oldBuffer
    /\ UNCHANGED <<bufVars, idleVars, sessionVars, cmdVars, extraVars>>

ResizeNext == RunStart \/ ResizeGrid

SpecResize == ResizeInit /\ [][ResizeNext]_vars

\* C24: at construction and after every resize to positive dimensions the
\* heat grid is an all-zero array of length width*height + width + 1 and
\* the number of heat sources is max(1, width / 6), for every width >= 1.
ResizeAllocatesGridAndSources ==
    (width >= 1 /\ height >= 1)
        => /\ bufferLen = width * height + width + 1
           /\ Len(buffer) = bufferLen
           /\ AllZero(buffer)
           /\ heatSources = IF width \div heatSourceDivisor > 1
                            THEN width \div heatSourceDivisor
                            ELSE 1

\* ------------------------------------------------------------------------
\* Specification of the legacy single-file loop: Up, Down, other keys and
\* resize events
\* ------------------------------------------------------------------------
defaultHeatPower == 75
minHeat == 10
maxHeat == 85
minSources == 1
heatStep == 5

LegacyKeys == {KeyUp, KeyDown, KeyEscape, KeyRune}

\* The state before the loop: the terminal has a positive size (a zero
\* size returns earlier), heatPower and heatSources have their defaults.
LegacyInit ==
    /\ width \in ResizeWidths \ {0}
    /\ height \in ResizeHeights \ {0}
    /\ heatPower = defaultHeatPower
    /\ heatSources = width \div heatSourceDivisor
    /\ bufferLen = width * height + width + 1
    /\ pc = "running"
    /\ mode = ModeNormal
    /\ visualState = NewVisualStateWithPreset(
                        [Rate |-> DefaultCooldownRate, Delay |-> DefaultCooldownDelay])
    /\ frame = 0
    /\ inputBuffer = <<>>
    /\ framesSinceInput = 0
    /\ wrongPasswordFrames = 0
    /\ stored = <<>>
    /\ lastEvent = NoEvent
    /\ lastAction = actionNone
    /\ lastCheck = "none"
    /\ BufferUnused
    /\ IdleUnused
    /\ OtherUnused

\* case *tcell.EventKey of the legacy loop
LegacyKey ==
    /\ pc = "running"
    /\ \E key \in LegacyKeys :
         /\ lastEvent' = EventKey(key, 0)
         /\ CASE key = KeyUp ->
                   /\ heatPower' = IF heatPower + heatStep > maxHeat THEN maxHeat
                                    ELSE heatPower + heatStep
                   /\ heatSources' = IF heatSources + 1 > width THEN width
                                      ELSE heatSources + 1
                   /\ lastAction' = actionNone
                   /\ UNCHANGED pc
              [] key = KeyDown ->
                   /\ heatPower' = IF heatPower - heatStep < minHeat THEN minHeat
                                    ELSE heatPower - heatStep
                   /\ heatSources' = IF heatSources > minSources THEN heatSources - 1
                                      ELSE heatSources
                   /\ lastAction' = actionNone
                   /\ UNCHANGED pc
              [] OTHER ->
                   /\ lastAction' = actionExit
                   /\ pc' = "done"
                   /\ UNCHANGED <<heatPower, heatSources>>
    /\ UNCHANGED <<mode, visualState, bufferLen, width, height, frame,
                   framesSinceInput, wrongPasswordFrames, stored, lastCheck,
                   inputBuffer>>
    /\ UNCHANGED <<bufVars, idleVars, otherVars>>

\* case *tcell.EventResize of the legacy loop
LegacyResize ==
    /\ pc = "running"
    /\ \E w \in ResizeWidths, h \in ResizeHeights :
         /\ width' = w
         /\ height' = h
         /\ lastEvent' = EventResize(w, h)
         /\ IF w <= 0 \/ h <= 0
            THEN /\ lastAction' = actionExit
                 /\ pc' = "done"
                 /\ UNCHANGED <<bufferLen, heatSources>>
            ELSE /\ lastAction' = actionResize
                 /\ bufferLen' = w * h + w + 1
                 /\ heatSources' = w \div heatSourceDivisor
                 /\ UNCHANGED pc
    /\ UNCHANGED <<mode, visualState, heatPower, frame, framesSinceInput,
                   wrongPasswordFrames, stored, lastCheck, inputBuffer>>
    /\ UNCHANGED <<bufVars, idleVars, otherVars>>

LegacyNext == LegacyKey \/ LegacyResize

SpecLegacy == LegacyInit /\ [][LegacyNext]_vars

\* C27: in the legacy loop, while it runs, heatPower stays within
\* [minHeat, maxHeat] = [10, 85] and heatSources stays within
\* [minSources, width] = [1, width], after any Up, Down and resize events.
LegacyHeatWithinLimits ==
    pc = "running"
        => /\ minHeat <= heatPower /\ heatPower <= maxHeat
           /\ minSources <= heatSources /\ heatSources <= width

\* C26: in normal mode a handled Up key leaves the heat power used for
\* injection higher than it was before the key, and a handled Down key
\* leaves it lower.
NormalUpRaisesDownLowersHeat ==
    [][(mode = ModeNormal /\ KeyStep)
          => /\ lastEvent'.key = KeyUp => heatPower' > heatPower
             /\ lastEvent'.key = KeyDown => heatPower' < heatPower]_vars

\* ------------------------------------------------------------------------
\* Specification of one cooldown arc: a VisualState with any preset, one
\* key press, then frames with no further key press
\* ------------------------------------------------------------------------
CooldownBursts == {0, 1, BurstHeat, MaxBurstHeat - BurstHeat - 1,
                   MaxBurstHeat - BurstHeat, MaxBurstHeat - 1, MaxBurstHeat}
CooldownIdleFrames == {0, DefaultCooldownDelay, MaxFramesSinceInput}

CooldownInit ==
    /\ \E p \in CooldownPresets, b \in CooldownBursts, n \in CooldownIdleFrames :
         visualState = [CurrentBurst |-> b, FramesSinceInput |-> n,
                        CooldownRate |-> p.Rate, CooldownDelay |-> p.Delay]
    /\ burstAtPress = -1
    /\ inputBuffer = <<>>
    /\ RuntimeUnused
    /\ BufferUnused
    /\ IdleUnused
    /\ SessionUnused
    /\ GridUnused
    /\ CmdUnused
    /\ PwUnused
    /\ LoopUnused
    /\ LateUnused

\* vs.OnKeyPress(), once
CooldownPress ==
    /\ burstAtPress = -1
    /\ visualState' = OnKeyPress(visualState)
    /\ burstAtPress' = visualState'.CurrentBurst
    /\ UNCHANGED <<mode, pc, heatPower, heatSources, bufferLen, width, height,
                   frame, framesSinceInput, wrongPasswordFrames, stored,
                   lastEvent, lastAction, lastCheck, inputBuffer>>
    /\ UNCHANGED <<bufVars, idleVars, sessionVars, gridVars, cmdVars, pwVars,
                   loopVars, lateVars>>

\* vs.OnFrame(), each frame after the key press
CooldownFrame ==
    /\ burstAtPress # -1
    /\ visualState.FramesSinceInput < MaxFramesSinceInput
    /\ visualState' = OnFrame(visualState)
    /\ UNCHANGED burstAtPress
    /\ UNCHANGED <<mode, pc, heatPower, heatSources, bufferLen, width, height,
                   frame, framesSinceInput, wrongPasswordFrames, stored,
                   lastEvent, lastAction, lastCheck, inputBuffer>>
    /\ UNCHANGED <<bufVars, idleVars, sessionVars, gridVars, cmdVars, pwVars,
                   loopVars, lateVars>>

CooldownNext == CooldownPress \/ CooldownFrame

\* The render loop calls OnFrame every frame for as long as it runs.
SpecCooldown == CooldownInit /\ [][CooldownNext]_vars /\ WF_vars(CooldownFrame)

minArcFrames == 17
maxArcFrames == 100

\* C25: for each preset, when the key press left CurrentBurst at
\* MaxBurstHeat, the number of OnFrame calls until CurrentBurst first is 0
\* lies between 17 and 100: the burst is 0 by frame 100 and not before
\* frame 17.
CooldownArcWithinHalfToThreeSeconds ==
    burstAtPress = MaxBurstHeat
        => /\ visualState.CurrentBurst > 0
                => visualState.FramesSinceInput < maxArcFrames
           /\ visualState.CurrentBurst = 0
                => visualState.FramesSinceInput >= minArcFrames

\* C30: OnKeyPress adds 12 to CurrentBurst, capped at 150, and resets
\* FramesSinceInput; OnFrame counts the frame, leaves CurrentBurst as it is
\* for the first CooldownDelay frames after the key press and from then on
\* lowers it by CooldownRate, not below 0; and with no further key press
\* CurrentBurst reaches 0 and stays 0.
BurstFedThenCoolsToZero ==
    /\ [][burstAtPress = -1 /\ burstAtPress' # -1
            => /\ BurstFed
               /\ visualState'.FramesSinceInput = 0]_vars
    /\ [][burstAtPress # -1 /\ visualState' # visualState
            => /\ visualState'.FramesSinceInput = visualState.FramesSinceInput + 1
               /\ visualState'.CurrentBurst =
                    IF visualState'.FramesSinceInput <= visualState.CooldownDelay
                    THEN visualState.CurrentBurst
                    ELSE IF visualState.CurrentBurst > visualState.CooldownRate
                         THEN visualState.CurrentBurst - visualState.CooldownRate
                         ELSE 0]_vars
    /\ [](burstAtPress # -1 => <>[](visualState.CurrentBurst = 0))

CooldownWitness ==
    /\ burstAtPress = MaxBurstHeat
    /\ visualState.CurrentBurst = 0
    /\ visualState.FramesSinceInput > visualState.CooldownDelay

\* C31: in Lock mode, an Enter whose password verification returns an error
\* is handled exactly like a wrong password: no exit action, the session
\* keeps running, the input buffer is cleared and the wrong-password
\* countdown starts; where the same buffer is also a wrong password, the
\* resulting state is the one the wrong password gives.
VerifyErrorHandledAsWrongPassword ==
    [][(mode = ModeLock /\ KeyStep /\ lastEvent'.key = KeyEnter
            /\ lastCheck' = "error")
          => LET w == handleKeyLock(KeyEnter, 0, FALSE)
             IN /\ lastAction' = actionNone
                /\ pc' = "running"
                /\ inputBuffer' = <<>>
                /\ wrongPasswordFrames' = wrongPasswordDuration
                /\ framesSinceInput' = 0
                /\ w.check = "invalid"
                      => /\ lastAction' = w.action
                         /\ inputBuffer' = w.buf
                         /\ wrongPasswordFrames' = w.wrong]_vars

VerifyErrorWitness ==
    /\ mode = ModeLock
    /\ lastEvent.key = KeyEnter
    /\ lastCheck = "error"
    /\ keyCount = 2
    /\ inputBuffer = <<>>
    /\ wrongPasswordFrames = wrongPasswordDuration

\* ------------------------------------------------------------------------
\* Specification of the lock command with its acquisitions and its deferred
\* releases as separate steps, logged in the order they happen
\* ------------------------------------------------------------------------
OrderInit ==
    /\ command = "lock"
    /\ cfgMode = ModeLock
    /\ passwordExists \in BOOLEAN
    /\ tmux \in BOOLEAN
    /\ socketProtect \in BOOLEAN
    /\ cmdPc = "execLock"
    /\ result = "none"
    /\ socketPerm = "original"
    /\ lockRecord = FALSE
    /\ terminal = FALSE
    /\ history = {}
    /\ relLog = <<>>
    /\ visualState = NewVisualStateWithPreset(CHOOSE p \in CooldownPresets :
                                                p.Rate = DefaultCooldownRate)
    /\ inputBuffer = <<>>
    /\ RuntimeUnused
    /\ BufferUnused
    /\ IdleUnused
    /\ SessionUnused
    /\ GridUnused
    /\ PwUnused
    /\ LoopUnused
    /\ CoolUnused
    /\ SweepUnused
    /\ WatchUnused

orderRest == <<runtimeVars, inputBuffer, bufVars, idleVars, sessionVars, gridVars,
               pwVars, loopVars, coolVars, sweepVars, watchVars>>

\* execLock, cfg.SocketProtect: GetTmuxSocketPath and RestrictSocket; on
\* success RestoreSocket is deferred.
OrderRestrictSocket ==
    /\ cmdPc = "restrict"
    /\ \E ok \in BOOLEAN :
         IF ok
         THEN /\ socketPerm' = RestrictSocket(socketPerm).perm
              /\ history' = history \cup {"socket"}
              /\ relLog' = Append(relLog, "restrict")
              /\ cmdPc' = "lock"
              /\ UNCHANGED result
         ELSE /\ cmdPc' = "done"
              /\ result' = "socketError"
              /\ UNCHANGED <<socketPerm, history, relLog>>
    /\ UNCHANGED <<command, cfgMode, passwordExists, tmux, socketProtect,
                   lockRecord, terminal>>
    /\ UNCHANGED orderRest

\* An execLock that defers RestoreSocket only after lock.Lock succeeded.
OrderLockLeaksSocket ==
    /\ cmdPc = "lock"
    /\ \E ok \in BOOLEAN :
         IF ok
         THEN /\ lockRecord' = TRUE
              /\ history' = history \cup {"record"}
              /\ relLog' = Append(relLog, "record")
              /\ cmdPc' = "execScreensaver"
              /\ UNCHANGED result
         ELSE /\ cmdPc' = "done"
              /\ result' = "lockError"
              /\ UNCHANGED <<lockRecord, history, relLog>>
    /\ UNCHANGED <<command, cfgMode, passwordExists, tmux, socketProtect,
                   socketPerm, terminal>>
    /\ UNCHANGED orderRest

\* execLock: lock.Lock creates the lock record and Unlock is deferred; when
\* it fails the command returns, through the deferred RestoreSocket if the
\* socket was narrowed.
OrderLock ==
    /\ cmdPc = "lock"
    /\ \E ok \in BOOLEAN :
         IF ok
         THEN /\ lockRecord' = TRUE
              /\ history' = history \cup {"record"}
              /\ relLog' = Append(relLog, "record")
              /\ cmdPc' = "execScreensaver"
              /\ UNCHANGED result
         ELSE /\ cmdPc' = IF socketProtect THEN "restore" ELSE "done"
              /\ result' = "lockError"
              /\ UNCHANGED <<lockRecord, history, relLog>>
    /\ UNCHANGED <<command, cfgMode, passwordExists, tmux, socketProtect,
                   socketPerm, terminal>>
    /\ UNCHANGED orderRest

\* execScreensaver returned: the deferred lock.Unlock() runs first and
\* removes the lock record.
OrderUnlock ==
    /\ cmdPc = "unwind"
    /\ lockRecord' = FALSE
    /\ relLog' = Append(relLog, "unlock")
    /\ cmdPc' = IF socketProtect THEN "restore" ELSE "done"
    /\ UNCHANGED <<command, cfgMode, passwordExists, tmux, socketProtect,
                   result, socketPerm, terminal, history>>
    /\ UNCHANGED orderRest

\* The deferred lock.RestoreSocket runs last; its error is dropped.
OrderRestoreSocket ==
    /\ cmdPc = "restore"
    /\ \E ok \in BOOLEAN :
         IF ok
         THEN /\ socketPerm' = RestoreSocket("original")
              /\ relLog' = Append(relLog, "restore")
         ELSE /\ relLog' = Append(relLog, "restoreFailed")
              /\ UNCHANGED socketPerm
    /\ cmdPc' = "done"
    /\ UNCHANGED <<command, cfgMode, passwordExists, tmux, socketProtect,
                   result, lockRecord, terminal, history>>
    /\ UNCHANGED orderRest

OrderNext ==
    \/ LockCheckPassword
    \/ LockCheckTmux
    \/ OrderRestrictSocket
    \/ OrderLock
    \/ ScreensaverCheckPassword
    \/ LockNewScreensaver
    \/ LockSession
    \/ LockScreensaverClose
    \/ OrderUnlock
    \/ OrderRestoreSocket
    \/ LockKilled

SpecLockOrder == OrderInit /\ [][OrderNext]_vars

Logged(x) == \E k \in 1..Len(relLog) : relLog[k] = x

LoggedBefore(x, y) ==
    \E j, k \in 1..Len(relLog) : j < k /\ relLog[j] = x /\ relLog[k] = y

\* C32: in the lock command the socket is narrowed (when protection is on)
\* and the lock record written before the lock screen holds the terminal;
\* the releases run in reverse order, the record removed before the socket
\* is restored, and only after the screen is gone; a failed lock.Lock after
\* narrowing still goes through the restore; and a failed restore leaves
\* the record removed.
LockAcquiresBeforeScreenReleasesInReverse ==
    /\ terminal => /\ lockRecord
                   /\ Logged("record")
                   /\ socketProtect => socketPerm = "ownerOnly"
    /\ (socketProtect /\ Logged("record")) => LoggedBefore("restrict", "record")
    /\ Logged("unlock") => ~terminal /\ LoggedBefore("record", "unlock")
    /\ \A r \in {"restore", "restoreFailed"} :
          Logged(r) => /\ LoggedBefore("restrict", r)
                       /\ Logged("record") => LoggedBefore("unlock", r)
    /\ (cmdPc = "done" /\ result = "lockError" /\ socketProtect)
          => /\ Logged("restore") \/ Logged("restoreFailed")
             /\ Logged("restore") => socketPerm = "original"
    /\ (Logged("restoreFailed") /\ Logged("record")) => ~lockRecord

LockOrderWitness ==
    /\ relLog = <<"restrict", "record", "unlock", "restoreFailed">>
    /\ cmdPc = "done"
    /\ result = "ok"
    /\ ~lockRecord
    /\ socketPerm = "ownerOnly"

\* ------------------------------------------------------------------------
\* Specification of the fire as the runtime drives it: key presses, frames
\* (updateVisualState, generateHeat, renderFire) and resize events on the
\* heat grid that newScreensaver allocated
\* ------------------------------------------------------------------------
MaxFireFrames == 2
MaxFireKeys == 1

FireDims == {<<0, 0>>, <<2, 2>>, <<heatSourceDivisor, 1>>,
             <<heatSourceDivisor, 2>>}
FireBursts == {0, MaxBurstHeat - BurstHeat, MaxBurstHeat}

\* newScreensaver in normal mode; the burst is one that earlier key presses
\* may have left, the grid is the fresh one.
FireInit ==
    /\ mode = ModeNormal
    /\ \E b \in FireBursts :
         visualState = [NewVisualStateWithPreset(
                          [Rate |-> DefaultCooldownRate,
                           Delay |-> DefaultCooldownDelay])
                        EXCEPT !.CurrentBurst = b]
    /\ heatPower = EffectiveHeatPower(visualState)
    /\ \E d \in FireDims : width = d[1] /\ height = d[2]
    /\ bufferLen = IF width <= 0 \/ height <= 0 THEN 0
                   ELSE width * height + width + 1
    /\ heatSources = IF width <= 0 \/ height <= 0 THEN 0
                     ELSE width \div heatSourceDivisor
    /\ buffer = IF width <= 0 \/ height <= 0 THEN <<>>
                ELSE makeBuffer(width, height)
    /\ oldBuffer = buffer
    /\ frame = 0
    /\ keyCount = 0
    /\ inputBuffer = <<>>
    /\ framesSinceInput = 0
    /\ wrongPasswordFrames = 0
    /\ stored = <<>>
    /\ pc = "start"
    /\ lastEvent = NoEvent
    /\ lastAction = actionNone
    /\ lastCheck = "none"
    /\ keyLog = <<>>
    /\ quiet = 0
    /\ sinceWrong = -1
    /\ BufferUnused
    /\ IdleUnused
    /\ CmdUnused
    /\ ExtraUnused

\* processEvents handles a key event: handleKey feeds the burst.
FireKey ==
    /\ pc = "running"
    /\ keyCount < MaxFireKeys
    /\ \E key \in {KeyUp, KeyEscape} : handleKey(key, 0, FALSE)
    /\ keyCount' = keyCount + 1
    /\ UNCHANGED <<keyLog, quiet, sinceWrong>>
    /\ UNCHANGED <<bufVars, idleVars, gridVars, cmdVars, extraVars>>

\* processEvents handles a resize event: resize reallocates the grid.
FireResize ==
    /\ pc = "running"
    /\ \E d \in FireDims :
         /\ handleResize(d[1], d[2])
         /\ buffer' = IF d[1] <= 0 \/ d[2] <= 0 THEN buffer
                       ELSE makeBuffer(d[1], d[2])
    /\ UNCHANGED oldBuffer
    /\ UNCHANGED <<bufVars, idleVars, sessionVars, cmdVars, extraVars>>

\* One turn of run's loop: updateVisualState, then renderFrame's
\* generateHeat with the heat power just set and renderFire, then frame++.
FireFrame ==
    /\ pc = "running"
    /\ frame < MaxFireFrames
    /\ updateVisualState
    /\ \E cols \in SUBSET (0..(width - 1)) :
         /\ Cardinality(cols) <= heatSources
         /\ heatSources > 0 => cols # {}
         /\ oldBuffer' = generateHeat(buffer, cols, width, height, heatPower')
    /\ buffer' = renderFire(oldBuffer', width, height)
    /\ frame' = frame + 1
    /\ UNCHANGED <<mode, pc, heatSources, bufferLen, width, height, stored,
                   lastEvent, lastAction, lastCheck>>
    /\ UNCHANGED <<bufVars, idleVars, sessionVars, cmdVars, extraVars>>

FireNext == RunStart \/ FireKey \/ FireResize \/ FireFrame

SpecFire == FireInit /\ [][FireNext]_vars

\* C33: every heat cell stays within [0, 225] = [0, BaseHeatPower +
\* MaxBurstHeat], before and after diffusion, whatever key presses, frames,
\* injections and resizes happened, and the heat power used for injection
\* is BaseHeatPower + CurrentBurst.
HeatCellsWithinRange ==
    /\ \A k \in 1..Len(buffer) :
          buffer[k] >= 0 /\ buffer[k] <= BaseHeatPower + MaxBurstHeat
    /\ \A k \in 1..Len(oldBuffer) :
          oldBuffer[k] >= 0 /\ oldBuffer[k] <= BaseHeatPower + MaxBurstHeat
    /\ heatPower = BaseHeatPower + visualState.CurrentBurst
    /\ BaseHeatPower + MaxBurstHeat <= 255

HeatRangeWitness ==
    /\ frame > 0
    /\ \E k \in 1..Len(oldBuffer) : oldBuffer[k] = BaseHeatPower + MaxBurstHeat
    /\ \E k \in 1..Len(buffer) : buffer[k] > 0

\* C34: whenever a frame can be rendered the heat buffer has length
\* width*height + width + 1, so every index diffusion reads (up to
\* i + width + 1 for i < width*height) is inside it; the slack cells past
\* width*height always hold 0; and in a frame the injection changes only
\* cells of the bottom row, across any interleaving of resizes and frames.
HeatBufferShapeAndSlack ==
    /\ [](pc = "running"
            => /\ Len(buffer) = width * height + width + 1
               /\ bufferLen = Len(buffer)
               /\ \A i \in 0..(width * height - 1) :
                     i + width + 2 \in 1..Len(buffer)
               /\ \A k \in (width * height + 1)..Len(buffer) : buffer[k] = 0)
    /\ [][frame' # frame
            => /\ Len(oldBuffer') = Len(buffer)
               /\ \A k \in 1..Len(buffer) :
                     oldBuffer'[k] # buffer[k]
                        => /\ k - 1 >= width * (height - 1)
                           /\ k - 1 < width * height
                           /\ oldBuffer'[k] = heatPower']_vars

HeatShapeWitness ==
    /\ frame > 0
    /\ lastEvent.type = "resize"
    /\ pc = "running"
    /\ \E k \in 1..Len(buffer) : buffer[k] > 0

\* ------------------------------------------------------------------------
\* Specification of one diffusion pass taken cell by cell: any grid of a
\* few cells, then renderFire's loop one iteration at a time
\* ------------------------------------------------------------------------
\* The cell a sweep from the last cell to the first handles in iteration i.
sweepCellBackward(i, w, h) == w * h - 1 - i

\* renderFire: for i := 0; i < size; i++ handles cell i in iteration i.
sweepCell(i, w, h) == i

\* The stencil of renderFire applied to a snapshot of the grid: every cell
\* below width*height is the integer average of four cells of the snapshot.
snapshotStencil(buf, w, h) ==
    [k \in 1..Len(buf) |->
        IF k <= w * h
        THEN (buf[k] + buf[k + 1] + buf[k + w] + buf[k + w + 1]) \div 4
        ELSE buf[k]]

SweepInit ==
    /\ \E d \in GridDims : width = d[1] /\ height = d[2]
    /\ bufferLen = width * height + width + 1
    /\ heatSources = width \div heatSourceDivisor
    /\ \E cells \in [1..(width * height) -> HeatValues] :
         buffer = [k \in 1..bufferLen |->
                     IF k <= width * height THEN cells[k] ELSE 0]
    /\ oldBuffer = buffer
    /\ sweepI = 0
    /\ mode = ModeNormal
    /\ pc = "running"
    /\ visualState = NewVisualStateWithPreset(CHOOSE p \in CooldownPresets :
                                                p.Rate = DefaultCooldownRate)
    /\ heatPower = EffectiveHeatPower(visualState)
    /\ frame = 0
    /\ inputBuffer = <<>>
    /\ framesSinceInput = 0
    /\ wrongPasswordFrames = 0
    /\ stored = <<>>
    /\ lastEvent = NoEvent
    /\ lastAction = actionNone
    /\ lastCheck = "none"
    /\ BufferUnused
    /\ IdleUnused
    /\ SessionUnused
    /\ CmdUnused
    /\ PwUnused
    /\ LoopUnused
    /\ CoolUnused
    /\ OrderUnused
    /\ WatchUnused

\* One iteration of renderFire's loop: the cell becomes the integer average
\* of itself and its right, lower and lower-right neighbours as the buffer
\* holds them at that moment.
SweepStep ==
    /\ sweepI < width * height
    /\ LET c == sweepCell(sweepI, width, height)
       IN buffer' = [buffer EXCEPT ![c + 1] =
                        (buffer[c + 1] + buffer[c + 2] + buffer[c + width + 1]
                           + buffer[c + width + 2]) \div 4]
    /\ sweepI' = sweepI + 1
    /\ UNCHANGED oldBuffer
    /\ UNCHANGED <<runtimeVars, inputBuffer, bufVars, idleVars, sessionVars,
                   cmdVars, pwVars, loopVars, coolVars, orderVars, watchVars>>

SweepNext == SweepStep

SpecSweep == SweepInit /\ [][SweepNext]_vars

\* C35 as stated: the in-place forward sweep has a read-after-write bias,
\* that is, for some grid of the screen's size its result differs from the
\* stencil applied to a snapshot of the grid taken before the pass.
SweepDiffersFromSnapshotForSomeGrid ==
    \E cells \in [1..(width * height) -> HeatValues] :
        LET g == [k \in 1..bufferLen |->
                    IF k <= width * height THEN cells[k] ELSE 0]
        IN renderFire(g, width, height) # snapshotStencil(g, width, height)

\* C35, amended: at every point of the forward sweep the cells it has not
\* handled yet, among them the three neighbours the next cell reads, still
\* hold their values from before the pass, and each handled cell holds the
\* stencil of the snapshot; the finished sweep is the stencil applied to
\* the snapshot.
SweepReadsOnlyUnwrittenCells ==
    /\ \A k \in (sweepI + 1)..Len(buffer) : buffer[k] = oldBuffer[k]
    /\ \A k \in 1..sweepI : buffer[k] = snapshotStencil(oldBuffer, width, height)[k]
    /\ sweepI = width * height
          => /\ buffer = snapshotStencil(oldBuffer, width, height)
             /\ buffer = renderFire(oldBuffer, width, height)

SweepWitness ==
    /\ width = 3
    /\ height = 2
    /\ sweepI = width * height
    /\ oldBuffer[1] = 0
    /\ oldBuffer[2] = BaseHeatPower
    /\ buffer[1] > 0
    /\ buffer[2] < BaseHeatPower

\* ------------------------------------------------------------------------
\* Tokens of the password slice of readPasswordWithArrows
\* ------------------------------------------------------------------------
\* The password slice read from the front as tokens: a printable ASCII byte
\* is a token of one byte, a zero byte followed by the second byte of one
\* of the four arrow markers is a token of two bytes; ok is FALSE when some
\* byte is neither (a control byte, or a marker cut in half).
RECURSIVE passwordTokens(_)
passwordTokens(p) ==
    IF Len(p) = 0 THEN [ok |-> TRUE, tokens |-> <<>>]
    ELSE IF p[1] >= bytePrintableStart /\ p[1] < bytePrintableEnd
    THEN LET rest == passwordTokens(Tail(p))
         IN [ok |-> rest.ok, tokens |-> <<(<<p[1]>>)>> \o rest.tokens]
    ELSE IF Len(p) >= 2 /\ SubSeq(p, 1, 2) \in ArrowMarkers
    THEN LET rest == passwordTokens(SubSeq(p, 3, Len(p)))
         IN [ok |-> rest.ok, tokens |-> <<SubSeq(p, 1, 2)>> \o rest.tokens]
    ELSE [ok |-> FALSE, tokens |-> <<>>]

AllButLast(seq) == SubSeq(seq, 1, Len(seq) - 1)

\* C36: while set-password reads input, the password is a concatenation of
\* printable ASCII bytes (0x20..0x7e) and whole 2-byte arrow markers,
\* displayLen is the number of those tokens, and a backspace (0x7f or 0x08)
\* on a non-empty password removes exactly its last token; a printable
\* byte or an arrow sequence followed by a backspace leaves the tokens as
\* they were.
PasswordIsWholeTokens ==
    /\ [](rpPc = "reading"
            => /\ passwordTokens(passwordBytes).ok
               /\ displayLen = Len(passwordTokens(passwordBytes).tokens))
    /\ [][(rpPc = "reading" /\ rpPc' = "reading")
           => LET old == passwordTokens(passwordBytes).tokens
                  new == passwordTokens(passwordBytes').tokens
              IN /\ lastChunk' \in {<<byteBackspace>>, <<byteDelete>>}
                      => /\ new = AllButLast(old)
                         /\ displayLen' = Len(new)
                         /\ passwordBytes' =
                               SubSeq(passwordBytes, 1,
                                      Len(passwordBytes) - (IF old = <<>> THEN 0
                                                            ELSE Len(old[Len(old)])))
                 /\ lastChunk' \in {<<97, byteBackspace>>,
                                    <<byteEscape, 91, 68, byteBackspace>>}
                      => new = old /\ passwordBytes' = passwordBytes]_vars

PasswordTokensWitness ==
    /\ rpPc = "reading"
    /\ lastChunk = <<byteBackspace>>
    /\ passwordBytes = ArrowRightMarker
    /\ displayLen = 1

\* ------------------------------------------------------------------------
\* The event queue between pollEvents and processEvents
\* ------------------------------------------------------------------------
\* The event pollEvents holds between PollEvent and the send, if any.
pollHeld == IF pollEv = 0 THEN <<>> ELSE <<pollEv>>

\* C37: the events handled so far, then the queued ones, then the one the
\* poll goroutine is about to send are exactly the events polled, each
\* once and in the order polled; the queue never holds more than 10; each
\* receive handles the oldest queued event; and a poll goroutine sending
\* into a full queue keeps its event and stays in the send until the loop
\* has taken an event out.
EventsHandledInPollOrder ==
    /\ [](/\ Len(events) <= eventQueueCap
          /\ handled \o events \o pollHeld = [k \in 1..polledCount |-> k])
    /\ [][
          /\ handled' # handled
                => /\ events # <<>>
                   /\ handled' = Append(handled, Head(events))
                   /\ events' = Tail(events)
          /\ (pollPc = "sending" /\ Len(events) = eventQueueCap)
                => pollPc' = "sending" /\ pollEv' = pollEv
          /\ (pollPc = "sending" /\ pollPc' # "sending")
                => events' = Append(events, pollEv)
       ]_vars

EventQueueWitness ==
    /\ Len(events) = eventQueueCap
    /\ pollPc = "sending"
    /\ Len(handled) >= 1
    /\ loopPc = "sleep"

\* ------------------------------------------------------------------------
\* Specification of the tmux plugin script's start, stop and toggle: up to
\* two invocations of yule-log.tmux at a time, each one command at a time
\* ------------------------------------------------------------------------
MaxSpawned == 3

IdleTimeOptions == {"", "0", "300"}
WatchCommands == {"start", "stop", "toggle"}

\* is_watcher_running: the PID file exists and kill -0 finds its process.
is_watcher_running == pidFile # NoPid /\ pidFile \in watcherProcs

\* is_watcher_running, the PID file after the check: a stale file is removed.
pidFileChecked ==
    IF pidFile # NoPid /\ pidFile \notin watcherProcs THEN NoPid ELSE pidFile

watchRest == <<runtimeVars, inputBuffer, bufVars, idleVars, sessionVars, gridVars,
               cmdVars, pwVars, loopVars, coolVars, orderVars, sweepVars>>

WatchInit ==
    /\ idleTimeOpt \in IdleTimeOptions
    /\ watcherProcs = {}
    /\ pidFile = NoPid
    /\ invPc = [i \in Invocations |-> "idle"]
    /\ invPid = [i \in Invocations |-> NoPid]
    /\ spawned = 0
    /\ inputBuffer = <<>>
    /\ RuntimeIdle
    /\ BufferUnused
    /\ IdleUnused
    /\ SessionUnused
    /\ GridUnused
    /\ CmdUnused
    /\ PwUnused
    /\ LoopUnused
    /\ CoolUnused
    /\ OrderUnused
    /\ SweepUnused

\* main: the case on the first argument; an invocation that has returned
\* makes room for the next one.
WatchInvoke(i) ==
    /\ invPc[i] \in {"idle", "done", "returnedEarly"}
    /\ \E cmd \in WatchCommands :
         invPc' = [invPc EXCEPT ![i] =
                     CASE cmd = "start" -> "start_idle_watcher"
                       [] cmd = "stop" -> "stop_idle_watcher"
                       [] cmd = "toggle" -> "toggle_idle_watcher"]
    /\ invPid' = [invPid EXCEPT ![i] = NoPid]
    /\ UNCHANGED <<idleTimeOpt, watcherProcs, pidFile, spawned>>
    /\ UNCHANGED watchRest

\* start_idle_watcher: an idle time that is empty or 0 returns at once.
StartGetIdleTime(i) ==
    /\ invPc[i] = "start_idle_watcher"
    /\ invPc' = [invPc EXCEPT ![i] =
                   IF idleTimeOpt = "" \/ idleTimeOpt = "0"
                   THEN "returnedEarly" ELSE "startCheck"]
    /\ UNCHANGED <<idleTimeOpt, watcherProcs, pidFile, invPid, spawned>>
    /\ UNCHANGED watchRest

\* start_idle_watcher: if is_watcher_running; then return 0
StartCheckRunning(i) ==
    /\ invPc[i] = "startCheck"
    /\ invPc' = [invPc EXCEPT ![i] =
                   IF is_watcher_running THEN "returnedEarly" ELSE "spawn"]
    /\ pidFile' = pidFileChecked
    /\ UNCHANGED <<idleTimeOpt, watcherProcs, invPid, spawned>>
    /\ UNCHANGED watchRest

\* start_idle_watcher: nohup $idle_cmd & and local pid=$!
StartSpawn(i) ==
    /\ invPc[i] = "spawn"
    /\ spawned < MaxSpawned
    /\ spawned' = spawned + 1
    /\ watcherProcs' = watcherProcs \cup {spawned + 1}
    /\ invPid' = [invPid EXCEPT ![i] = spawned + 1]
    /\ invPc' = [invPc EXCEPT ![i] = "savePid"]
    /\ UNCHANGED <<idleTimeOpt, pidFile>>
    /\ UNCHANGED watchRest

\* start_idle_watcher: echo "$pid" > "$pid_file"
StartSavePid(i) ==
    /\ invPc[i] = "savePid"
    /\ pidFile' = invPid[i]
    /\ invPc' = [invPc EXCEPT ![i] = "done"]
    /\ UNCHANGED <<idleTimeOpt, watcherProcs, invPid, spawned>>
    /\ UNCHANGED watchRest

\* stop_idle_watcher: with a PID file, pid=$(cat "$pid_file") and, if the
\* process is alive, kill "$pid"; without one, nothing.
StopKill(i) ==
    /\ invPc[i] = "stop_idle_watcher"
    /\ IF pidFile = NoPid
       THEN /\ invPc' = [invPc EXCEPT ![i] = "done"]
            /\ UNCHANGED <<watcherProcs, invPid>>
       ELSE /\ invPid' = [invPid EXCEPT ![i] = pidFile]
            /\ watcherProcs' = watcherProcs \ {pidFile}
            /\ invPc' = [invPc EXCEPT ![i] = "stopRemove"]
    /\ UNCHANGED <<idleTimeOpt, pidFile, spawned>>
    /\ UNCHANGED watchRest

\* stop_idle_watcher: rm -f "$pid_file"
StopRemove(i) ==
    /\ invPc[i] = "stopRemove"
    /\ pidFile' = NoPid
    /\ invPc' = [invPc EXCEPT ![i] = "done"]
    /\ UNCHANGED <<idleTimeOpt, watcherProcs, invPid, spawned>>
    /\ UNCHANGED watchRest

\* toggle_idle_watcher: if is_watcher_running; then stop_idle_watcher;
\* else start_idle_watcher
ToggleCheck(i) ==
    /\ invPc[i] = "toggle_idle_watcher"
    /\ invPc' = [invPc EXCEPT ![i] =
                   IF is_watcher_running THEN "stop_idle_watcher"
                   ELSE "start_idle_watcher"]
    /\ pidFile' = pidFileChecked
    /\ UNCHANGED <<idleTimeOpt, watcherProcs, invPid, spawned>>
    /\ UNCHANGED watchRest

WatchNext ==
    \E i \in Invocations :
        \/ WatchInvoke(i)
        \/ StartGetIdleTime(i)
        \/ StartCheckRunning(i)
        \/ StartSpawn(i)
        \/ StartSavePid(i)
        \/ StopKill(i)
        \/ StopRemove(i)
        \/ ToggleCheck(i)

SpecWatcher == WatchInit /\ [][WatchNext]_vars

\* No invocation of the script is under way.
WatchQuiescent ==
    \A i \in Invocations : invPc[i] \in {"idle", "done", "returnedEarly"}

\* C38: after any sequence of start, stop and toggle invocations, also
\* overlapping ones, at most one idle watcher runs and the PID file, when
\* present, names it; and a start that found the idle time 0 or empty or a
\* watcher already running has started nothing.
AtMostOneWatcherNamedByPidFile ==
    /\ WatchQuiescent
          => /\ Cardinality(watcherProcs) <= 1
             /\ pidFile # NoPid => watcherProcs = {pidFile}
    /\ \A i \in Invocations :
          invPc[i] = "returnedEarly" => invPid[i] = NoPid

====
